---- MODULE Spec2Model ----
(***************************************************************************)
(* The multi-language execution engine of the Online-Compiler backend      *)
(* (backend/services/codeExecutor.js): executeCode and the per-language    *)
(* pipelines, with the file system, the child processes and their events   *)
(* as the environment.                                                     *)
(*                                                                         *)
(* Texts are sequences of one-character strings, so that includes, split,  *)
(* trim and startsWith are computed as JavaScript computes them.  Fixed    *)
(* message fragments that are never scanned are kept as single elements.   *)
(* An optional value is a sequence of length 0 (absent, null) or 1.        *)
(***************************************************************************)
EXTENDS Integers, Sequences, FiniteSets, TLC

\* ------------------------------------------------------------------ bounds
\* Number of executeCode calls a behaviour issues.
MaxCalls == 2
\* Number of 'data' events the child processes of one call deliver.
MaxChunks == 2

\* Number of fragments a generated source text is put together from.
MaxFragments == 3

\* Number of times the clock advances in a behaviour.
MaxTicks == 2

Calls == 1..MaxCalls

\* ------------------------------------------------------------------- texts
None == << >>
Some(x) == <<x>>

Whitespace == {" ", "\n", "\t", "\r"}

RECURSIVE trimStart(_)
trimStart(s) ==
  IF s # << >> /\ Head(s) \in Whitespace THEN trimStart(Tail(s)) ELSE s

RECURSIVE trimEnd(_)
trimEnd(s) ==
  IF s # << >> /\ s[Len(s)] \in Whitespace
  THEN trimEnd(SubSeq(s, 1, Len(s) - 1))
  ELSE s

\* a trim that forgets the trailing whitespace
trimLeadingOnly(s) == trimStart(s)

\* String.prototype.trim
trim(s) == trimEnd(trimStart(s))

\* String.prototype.substring on positions i..j, counted from 1
slice(s, i, j) ==
  IF i > j \/ i > Len(s)
  THEN << >>
  ELSE SubSeq(s, i, IF j > Len(s) THEN Len(s) ELSE j)

\* String.prototype.includes
includes(s, sub) ==
  \E i \in 0..(Len(s) - Len(sub)) : SubSeq(s, i + 1, i + Len(sub)) = sub

\* String.prototype.startsWith
startsWith(s, prefix) ==
  Len(s) >= Len(prefix) /\ SubSeq(s, 1, Len(prefix)) = prefix

\* String.prototype.split('\n')
RECURSIVE splitLines(_)
splitLines(s) ==
  IF \A i \in 1..Len(s) : s[i] # "\n"
  THEN <<s>>
  ELSE LET k == CHOOSE i \in 1..Len(s) :
                  s[i] = "\n" /\ \A j \in 1..(i - 1) : s[j] # "\n"
       IN  <<SubSeq(s, 1, k - 1)>> \o splitLines(SubSeq(s, k + 1, Len(s)))

\* --------------------------------------------------------- content checks
REQUIRE_CALL == <<"r", "e", "q", "u", "i", "r", "e", "(">>
ALLOW_REQUIRE ==
  <<"/", "/", " ", "@", "a", "l", "l", "o", "w", "-", "r", "e", "q", "u", "i", "r", "e">>
IMPORT_ == <<"i", "m", "p", "o", "r", "t", " ">>
FROM_ == <<"f", "r", "o", "m", " ">>

\* const dangerousImports = ['os', 'subprocess', 'sys', 'socket', 'urllib']
dangerousImports ==
  << <<"o", "s">>,
     <<"s", "u", "b", "p", "r", "o", "c", "e", "s", "s">>,
     <<"s", "y", "s">>,
     <<"s", "o", "c", "k", "e", "t">>,
     <<"u", "r", "l", "l", "i", "b">> >>

\* a check without the opt-in marker
validateJavaScriptNoOptIn(code) ==
  IF includes(code, REQUIRE_CALL)
  THEN Some(<<"require() is not allowed for security reasons">>)
  ELSE None

\* The check at the head of executeJavaScript: the error thrown, if any.
validateJavaScript(code) ==
  IF includes(code, REQUIRE_CALL) /\ ~includes(code, ALLOW_REQUIRE)
  THEN Some(<<"require() is not allowed for security reasons">>)
  ELSE None

\* a line check that looks for the word import alone
lineImportsAnything(line, dangerous) == includes(line, IMPORT_)

\* a line check without the from form
lineImportsNoFrom(line, dangerous) == includes(line, IMPORT_ \o dangerous)

\* if (line.includes(`import ${dangerous}`) || line.includes(`from ${dangerous}`))
lineImports(line, dangerous) ==
  includes(line, IMPORT_ \o dangerous) \/ includes(line, FROM_ \o dangerous)

\* The nested loops at the head of executePython: the first (line, module)
\* pair that matches, lines outermost, throws.
validatePython(code) ==
  LET codeLines == splitLines(code)
      hits == {p \in (1..Len(codeLines)) \X (1..Len(dangerousImports)) :
                 lineImports(codeLines[p[1]], dangerousImports[p[2]])}
  IN  IF hits = {}
      THEN None
      ELSE LET first == CHOOSE p \in hits :
                          \A q \in hits :
                            p[1] < q[1] \/ (p[1] = q[1] /\ p[2] <= q[2])
           IN  Some(<<"Import '">> \o dangerousImports[first[2]]
                    \o <<"' is not allowed for security reasons">>)

\* -------------------------------------------------------------- languages
Interpreted == {"javascript", "python", "php"}
Compiled == {"java", "cpp", "c"}
\* the cases of the switch in executeCode
SwitchCases == Interpreted \cup Compiled


\* --------------------------------------------------- per-language sources
\* \w and \s of the regular expression in executeJava
WordChars ==
  {"a", "b", "c", "d", "e", "f", "g", "h", "i", "j", "k", "l", "m", "n", "o", "p", "q", "r", "s", "t", "u", "v", "w", "x", "y", "z", "A", "B", "C", "D", "E", "F", "G", "H", "I", "J", "K", "L", "M", "N", "O", "P", "Q", "R", "S", "T", "U", "V", "W", "X", "Y", "Z", "0", "1", "2", "3", "4", "5", "6", "7", "8", "9", "_"}
RegexSpace == {" ", "\n", "\t", "\r"}

\* length of the longest run of characters of S that starts at position i
RECURSIVE runLength(_, _, _)
runLength(s, i, S) ==
  IF i <= Len(s) /\ s[i] \in S THEN 1 + runLength(s, i + 1, S) ELSE 0

PUBLIC == <<"p", "u", "b", "l", "i", "c">>
CLASS == <<"c", "l", "a", "s", "s">>

\* /public\s+class\s+(\w+)/ anchored at position i: the captured group, if any
classMatchAt(code, i) ==
  LET a == i + Len(PUBLIC)
      sa == runLength(code, a, RegexSpace)
      b == a + sa
      c == b + Len(CLASS)
      sc == runLength(code, c, RegexSpace)
      d == c + sc
      w == runLength(code, d, WordChars)
  IN  IF /\ slice(code, i, a - 1) = PUBLIC
         /\ sa >= 1
         /\ slice(code, b, c - 1) = CLASS
         /\ sc >= 1
         /\ w >= 1
      THEN Some(slice(code, d, d + w - 1))
      ELSE None

\* a class name that never looks at the code
classNameAlwaysMain(code) == <<"M", "a", "i", "n">>

\* const className = classMatch ? classMatch[1] : 'Main'
className(code) ==
  LET starts == {i \in 1..Len(code) : classMatchAt(code, i) # None}
  IN  IF starts = {}
      THEN <<"M", "a", "i", "n">>
      ELSE LET i == CHOOSE k \in starts : \A j \in starts : k <= j
           IN  classMatchAt(code, i)[1]

PHP_OPEN == <<"<", "?", "p", "h", "p">>

\* a normalisation that prepends the open tag to every code
phpCodeAlwaysPrepends(code) == PHP_OPEN \o <<"\n">> \o code

\* const phpCode = code.startsWith('<?php') ? code : `<?php\n${code}`
phpCode(code) ==
  IF startsWith(code, PHP_OPEN) THEN code ELSE PHP_OPEN \o <<"\n">> \o code

\* the check each language function makes before it writes the source file
validate(language, code) ==
  CASE language = "javascript" -> validateJavaScript(code)
    [] language = "python" -> validatePython(code)
    [] OTHER -> None

\* name of the source file each language function writes
sourceName(language, code) ==
  CASE language = "javascript" -> <<"script.js">>
    [] language = "python" -> <<"script.py">>
    [] language = "java" -> className(code) \o <<".java">>
    [] language = "cpp" -> <<"program.cpp">>
    [] language = "c" -> <<"program.c">>
    [] language = "php" -> <<"script.php">>

\* text each language function writes to its source file
sourceText(language, code) ==
  IF language = "php" THEN phpCode(code) ELSE code

\* command spawned for a stage, before environment overrides are applied
command(language, stage) ==
  CASE language = "javascript" -> "node"
    [] language = "python" -> "python"
    [] language = "php" -> "php"
    [] language = "java" -> IF stage = "compile" THEN "javac" ELSE "java"
    [] language = "cpp" -> IF stage = "compile" THEN "g++" ELSE "program.exe"
    [] language = "c" -> IF stage = "compile" THEN "gcc" ELSE "program.exe"

\* the stages whose command goes through resolveBinary
Resolved(language, stage) ==
  language \in {"java", "php"} \/ (language \in {"cpp", "c"} /\ stage = "compile")

\* a resolution that ignores the environment
resolveBinaryBare(e, name) == <<name>>

\* process.env.X is used when it is set to a non-empty string
truthy(v) == v # None /\ v[1] # ""

\* resolveBinary(name) under the environment e: a path, as its segments
resolveBinary(e, name) ==
  CASE name = "javac" ->
         IF truthy(e.JAVAC_PATH) THEN <<e.JAVAC_PATH[1]>>
         ELSE IF truthy(e.JAVA_HOME) THEN <<e.JAVA_HOME[1], "bin", "javac">>
         ELSE <<"javac">>
    [] name = "java" ->
         IF truthy(e.JAVA_PATH) THEN <<e.JAVA_PATH[1]>>
         ELSE IF truthy(e.JAVA_HOME) THEN <<e.JAVA_HOME[1], "bin", "java">>
         ELSE <<"java">>
    [] name = "php" -> IF truthy(e.PHP_PATH) THEN <<e.PHP_PATH[1]>> ELSE <<"php">>
    [] name = "gcc" -> IF truthy(e.GCC_PATH) THEN <<e.GCC_PATH[1]>> ELSE <<"gcc">>
    [] name = "g++" ->
         IF truthy(e.GPP_PATH) THEN <<e.GPP_PATH[1]>>
         ELSE IF truthy(e.GXX_PATH) THEN <<e.GXX_PATH[1]>>
         ELSE <<"g++">>
    [] OTHER -> <<name>>

\* label of the compile stage in the 'error' handler of each compiled language
compilerLabel(language) ==
  CASE language = "java" -> "Java compiler not available: "
    [] language = "cpp" -> "C++ compiler not available: "
    [] language = "c" -> "C compiler not available: "


\* const filename = path.join(sessionDir, ...), sourceFile
filename(dir, language, code) ==
  [dir |-> dir, name |-> sourceName(language, code)]

\* const executableFile = path.join(sessionDir, 'program.exe')
executableFile(dir) == [dir |-> dir, name |-> <<"program.exe">>]

\* directory of the command of a stage: the compiled program is spawned by
\* its path in the session directory, every other command by its name
commandDir(language, stage, dir) ==
  IF language \in {"cpp", "c"} /\ stage = "run" THEN Some(dir) ELSE None

\* the argument list of the spawn of a stage
arguments(language, stage, dir, code) ==
  CASE language \in Interpreted -> <<filename(dir, language, code)>>
    [] language = "java" ->
         IF stage = "compile"
         THEN <<filename(dir, language, code)>>
         ELSE <<"-cp", dir, className(code)>>
    [] language \in {"cpp", "c"} ->
         IF stage = "compile"
         THEN <<filename(dir, language, code), "-o", executableFile(dir)>>
         ELSE << >>

\* ----------------------------------------------------------- environment
\* Requests the callers submit: [code, language, input].
Codes ==
  [javascript |-> {<<"x", "=", "1">>,
                   <<"r", "e", "q", "u", "i", "r", "e", "(", "1", ")">>,
                   <<"/", "/", " ", "@", "a", "l", "l", "o", "w", "-", "r", "e", "q", "u", "i", "r", "e", "\n", "r", "e", "q", "u", "i", "r", "e", "(", "1", ")">>},
   python |-> {<<"x", "=", "1">>,
               <<"i", "m", "p", "o", "r", "t", " ", "o", "s">>,
               <<"x", "=", "1", "\n", "f", "r", "o", "m", " ", "s", "y", "s", " ", "i", "m", "p", "o", "r", "t", " ", "x">>},
   java |-> {<<"p", "u", "b", "l", "i", "c", " ", "c", "l", "a", "s", "s", " ", "A", "{", "}">>,
             <<"c", "l", "a", "s", "s", " ", "B", "{", "}">>},
   cpp |-> {<<"i", "n", "t", " ", "m", "a", "i", "n", "(", ")", "{", "}">>},
   c |-> {<<"i", "n", "t", " ", "m", "a", "i", "n", "(", ")", "{", "}">>},
   php |-> {<<"e", "c", "h", "o", " ", "1", ";">>,
            <<"<", "?", "p", "h", "p", " ", "e", "c", "h", "o", " ", "1", ";">>},
   ruby |-> {<<"x", "=", "1">>}]

Inputs == {<< >>, <<"h", "i">>}

Requests ==
  UNION {[code : Codes[l], language : {l}, input : Inputs] : l \in DOMAIN Codes}

\* texts a child process writes in one 'data' event
Chunks == {<<"O", "K", "\n">>, <<" ", "e">>}
\* exit codes of a process that ends by itself
ExitCodes == {0, 1}
\* errors of a spawn that fails, with the negative errno 'close' then reports
SpawnErrors == {"ENOENT", "EACCES"}
errnoOf(e) == IF e = "ENOENT" THEN 0 - 2 ELSE 0 - 13
\* errors of a failing file-system call
FsErrors == {"ENOSPC"}

\* process.env: each variable is absent, empty or a path
EnvNames ==
  {"JAVAC_PATH", "JAVA_PATH", "JAVA_HOME", "PHP_PATH", "GCC_PATH", "GPP_PATH",
   "GXX_PATH"}
NoEnv == [v \in EnvNames |-> None]
\* a host with a JDK outside PATH
JdkEnv == [NoEnv EXCEPT !["JAVA_HOME"] = Some("/jdk")]
Envs == {NoEnv, JdkEnv}
\* every environment: the value of a set variable names the variable
AllEnvs ==
  {[v \in EnvNames |->
      CASE k[v] = 0 -> None
        [] k[v] = 1 -> Some("")
        [] k[v] = 2 -> Some("/opt/" \o v)] : k \in [EnvNames -> 0..2]}

\* ------------------------------------------------------------------ state
VARIABLES
  pc,         \* per call: where executeCode stands
  req,        \* per call: the arguments code, language, input
  sessionId,  \* per call: const sessionId = uuidv4()
  promise,    \* per call: the promise the language function returns
  pending,    \* per call: the completion the try block ended with
  outcome,    \* per call: what the caller received
  cleanup,    \* per call: how fs.remove in the finally block ended
  cproc,      \* per call: compileProcess and its closure variables
  rproc,      \* per call: process / runProcess and its closure variables
  written,    \* per call: the source file fs.writeFile has created
  dirs,       \* directories that exist under TEMP_DIR
  nextId,     \* source of fresh session identifiers
  env,        \* process.env: the variables resolveBinary reads
  probes,     \* per call of getBinaryStatuses: its probes and its result
  now,        \* what Date.now() returns
  started,    \* per call: the time at which executeCode was entered
  win,        \* the host the older resolveBinary runs on, and what it returned
  http,       \* per call: the request of POST /execute and its response
  files,      \* the documents of the CodeFile collection
  save,       \* per request of POST /save: where its handler stands
  client      \* the frontend: AuthProvider's state and the requests of axios

vars ==
  <<pc, req, sessionId, promise, pending, outcome, cleanup, cproc, rproc,
    written, dirs, nextId, env, probes, now, started, win, http, files,
    save, client>>

\* the state of the routes and of the frontend
web == <<http, files, save, client>>

\* what POST /execute never assigns
offRoute == <<files, save, client>>

\* what the language functions never assign
tooling == <<env, probes, now, started, win, web>>

\* Date.now() when the module is loaded: a reading of the wall clock, in
\* time units since 1970, far above the length of any run
Epoch == 1000

TEMP_DIR == "temp"
\* one working directory for every call
sharedDir(c) == <<TEMP_DIR, 0>>

\* const sessionDir = path.join(TEMP_DIR, sessionId)
sessionDir(c) == <<TEMP_DIR, sessionId[c]>>

NoRequest == [code |-> << >>, language |-> "", input |-> << >>]
\* executionTime is the executionTime property of the value
NoPromise == [state |-> "none", value |-> None, executionTime |-> None]
NoProcess ==
  [st |-> "none", file |-> << >>, fileDir |-> None, args |-> << >>, cwd |-> None,
   out |-> << >>, err |-> << >>, chunks |-> 0, wrote |-> << >>, timer |-> "off", stdin |-> [writes |-> << >>, ended |-> FALSE],
   code |-> None, errno |-> None]

Result(output, error, exitCode) ==
  [output |-> output, error |-> error, exitCode |-> exitCode]
Returned(result) == [kind |-> "return", result |-> Some(result), error |-> None]
Thrown(error) == [kind |-> "throw", result |-> None, error |-> Some(error)]
\* new Error(message), and the error of a failed file-system call
Error(message) == [message |-> message, code |-> None]
FsError(code, syscall) ==
  [message |-> <<code, ": ", syscall>>, code |-> Some(code)]

\* ---------------------------------------------------- state of the probes
\* const targets = ['java', 'javac', 'php']
targets == <<"java", "javac", "php">>
\* the calls of getBinaryStatuses a behaviour makes
Health == 1..MaxCalls

\* the probe process of checkBinary with its closure variables out and err;
\* status is what the promise of checkBinary was resolved with
NoProbe ==
  [st |-> "none", name |-> "", file |-> << >>, args |-> << >>, out |-> << >>,
   err |-> << >>, chunks |-> 0, code |-> None, errno |-> None, status |-> None]
NoStatuses ==
  [st |-> "idle", procs |-> [i \in 1..Len(targets) |-> NoProbe], value |-> None]

\* process.platform, the files that exist, whether the file system fails,
\* and the last call of the resolveBinary that uses ensureWinExe
NoWin ==
  [platform |-> "linux", disk |-> {}, fsError |-> FALSE, name |-> "",
   bin |-> None]

\* a value of a JSON body: its type and, as text, what it holds
Json(type, text) == [type |-> type, text |-> text]
Undefined == Json("undefined", << >>)
\* no request has reached the route of the call
NoExchange ==
  [st |-> "idle", code |-> Undefined, language |-> Undefined, called |-> FALSE,
   status |-> None]

\* the module is loaded: no call has been made
\* the frontend before anybody has logged in: useState(null) for token and
\* refreshTokenValue, an empty localStorage, no request made
NoClient ==
  [token |-> None, refreshTokenValue |-> None, storedToken |-> None,
   loggedOut |-> FALSE, requests |-> << >>]

\* requests of POST /save, numbered in the order of their arrival
MaxSaves == 3
Saves == 1..MaxSaves

\* a request of POST /save that has not arrived
NoSave ==
  [st |-> "idle", userId |-> "", filename |-> << >>, code |-> << >>,
   language |-> "", existingFile |-> None, status |-> None]

Loaded ==
  /\ pc = [c \in Calls |-> "idle"]
  /\ req = [c \in Calls |-> NoRequest]
  /\ sessionId = [c \in Calls |-> 0]
  /\ promise = [c \in Calls |-> NoPromise]
  /\ pending = [c \in Calls |-> None]
  /\ outcome = [c \in Calls |-> None]
  /\ cleanup = [c \in Calls |-> "none"]
  /\ cproc = [c \in Calls |-> NoProcess]
  /\ rproc = [c \in Calls |-> NoProcess]
  /\ written = [c \in Calls |-> None]
  /\ dirs = {}
  /\ nextId = 1
  /\ probes = [h \in Health |-> NoStatuses]
  /\ now = Epoch
  /\ started = [c \in Calls |-> None]
  /\ http = [c \in Calls |-> NoExchange]
  /\ files = {}
  /\ save = [s \in Saves |-> NoSave]

Init == Loaded /\ env \in Envs /\ win = NoWin /\ client = NoClient

\* ------------------------------------------------------------ executeCode
\* a throw that leaves executeCode at once, as without the finally block
raiseSkippingFinally(c, error) ==
  /\ pending' = [pending EXCEPT ![c] = Some(Thrown(error))]
  /\ outcome' = [outcome EXCEPT ![c] = Some(Thrown(error))]
  /\ pc' = [pc EXCEPT ![c] = "done"]

\* A throw inside the try block: control passes to the finally block.
raise(c, error) ==
  /\ pending' = [pending EXCEPT ![c] = Some(Thrown(error))]
  /\ pc' = [pc EXCEPT ![c] = "finally"]
  /\ UNCHANGED outcome

\* a resolve that settles the promise anew whenever it is called
resolveOverwrites(c, value) ==
  IF promise[c].state # "none"
  THEN /\ promise' = [promise EXCEPT
                        ![c] = [state |-> "resolved", value |-> Some(value),
                                executionTime |-> Some(now)]]
       /\ pending' = IF pc[c] = "await"
                     THEN [pending EXCEPT ![c] = Some(Returned(value))]
                     ELSE pending
       /\ pc' = IF pc[c] = "await" THEN [pc EXCEPT ![c] = "finally"] ELSE pc
  ELSE UNCHANGED <<promise, pending, pc>>

\* a resolve whose value carries the time that has passed since the entry
resolveWithDuration(c, value) ==
  IF promise[c].state = "pending"
  THEN /\ promise' = [promise EXCEPT
                        ![c] = [state |-> "resolved", value |-> Some(value),
                                executionTime |-> Some(now - started[c][1])]]
       /\ pending' = [pending EXCEPT ![c] = Some(Returned(value))]
       /\ pc' = [pc EXCEPT ![c] = "finally"]
  ELSE UNCHANGED <<promise, pending, pc>>

\* resolve(value) of the promise of a language function.  The first call
\* settles the promise: the await in executeCode continues, result is
\* returned from the try block and the finally block starts.  Later calls
\* do nothing.  Every value is built with executionTime: Date.now().
resolve(c, value) ==
  IF promise[c].state = "pending"
  THEN /\ promise' = [promise EXCEPT
                        ![c] = [state |-> "resolved", value |-> Some(value),
                                executionTime |-> Some(now)]]
       /\ pending' = [pending EXCEPT ![c] = Some(Returned(value))]
       /\ pc' = [pc EXCEPT ![c] = "finally"]
  ELSE UNCHANGED <<promise, pending, pc>>

\* Entry of executeCode: the session id is minted and fs.ensureDir starts.
executeCode(c, r) ==
  /\ pc[c] = "idle"
  /\ \A d \in Calls : d < c => pc[d] # "idle"
  /\ req' = [req EXCEPT ![c] = r]
  /\ sessionId' = [sessionId EXCEPT ![c] = nextId]
  /\ nextId' = nextId + 1
  /\ pc' = [pc EXCEPT ![c] = "ensureDir"]
  /\ started' = [started EXCEPT ![c] = Some(now)]
  /\ UNCHANGED <<promise, pending, outcome, cleanup, cproc, rproc, written,
                 dirs>>
  /\ UNCHANGED <<env, probes, now, win, web>>

\* an ensureDir whose failure is swallowed
ensureDirIgnoringFailure(c) ==
  /\ pc[c] = "ensureDir"
  /\ \/ dirs' = dirs \cup {sessionDir(c)}
     \/ UNCHANGED dirs
  /\ pc' = [pc EXCEPT ![c] = "switch"]
  /\ UNCHANGED <<req, sessionId, promise, pending, outcome, cleanup, cproc,
                 rproc, written, nextId>>
  /\ UNCHANGED tooling

\* await fs.ensureDir(sessionDir) completes.
ensureDir(c) ==
  /\ pc[c] = "ensureDir"
  /\ \/ /\ dirs' = dirs \cup {sessionDir(c)}
        /\ pc' = [pc EXCEPT ![c] = "switch"]
        /\ UNCHANGED <<pending, outcome>>
     \/ /\ \E e \in FsErrors : raise(c, FsError(e, "mkdir"))
        /\ UNCHANGED dirs
  /\ UNCHANGED <<req, sessionId, promise, cleanup, cproc, rproc, written,
                 nextId>>
  /\ UNCHANGED tooling

\* a switch without its default case: result stays undefined
dispatchWithoutDefault(c) ==
  /\ pc[c] = "switch"
  /\ IF req[c].language \notin SwitchCases
     THEN /\ pending' = [pending EXCEPT
                           ![c] = Some(Returned(Result(<< >>, << >>, None)))]
          /\ pc' = [pc EXCEPT ![c] = "finally"]
          /\ UNCHANGED outcome
     ELSE LET rejected == validate(req[c].language, req[c].code)
          IN  IF rejected # None
              THEN raise(c, Error(rejected[1]))
              ELSE /\ pc' = [pc EXCEPT ![c] = "writeFile"]
                   /\ UNCHANGED <<pending, outcome>>
  /\ UNCHANGED <<req, sessionId, promise, cleanup, cproc, rproc, written, dirs,
                 nextId>>
  /\ UNCHANGED tooling

\* language functions that write the source file first and check it then
dispatchWritesFirst(c) ==
  /\ pc[c] = "switch"
  /\ IF req[c].language \notin SwitchCases
     THEN /\ raise(c, Error(<<"Unsupported language: ", req[c].language>>))
          /\ UNCHANGED written
     ELSE LET rejected == validate(req[c].language, req[c].code)
          IN  IF rejected # None
              THEN /\ raise(c, Error(rejected[1]))
                   /\ written' =
                        [written EXCEPT
                           ![c] = Some([dir |-> sessionDir(c),
                                        name |-> sourceName(req[c].language,
                                                            req[c].code),
                                        content |-> sourceText(req[c].language,
                                                               req[c].code)])]
              ELSE /\ pc' = [pc EXCEPT ![c] = "writeFile"]
                   /\ UNCHANGED <<pending, outcome, written>>
  /\ UNCHANGED <<req, sessionId, promise, cleanup, cproc, rproc, dirs, nextId>>
  /\ UNCHANGED tooling

\* switch (language): the default case throws; every other case enters its
\* language function, which checks the code and then starts fs.writeFile.
dispatch(c) ==
  /\ pc[c] = "switch"
  /\ IF req[c].language \notin SwitchCases
     THEN raise(c, Error(<<"Unsupported language: ", req[c].language>>))
     ELSE LET rejected == validate(req[c].language, req[c].code)
          IN  IF rejected # None
              THEN raise(c, Error(rejected[1]))
              ELSE /\ pc' = [pc EXCEPT ![c] = "writeFile"]
                   /\ UNCHANGED <<pending, outcome>>
  /\ UNCHANGED <<req, sessionId, promise, cleanup, cproc, rproc, written, dirs,
                 nextId>>
  /\ UNCHANGED tooling

\* await fs.writeFile(filename, code) completes.
writeFile(c) ==
  /\ pc[c] = "writeFile"
  /\ \/ /\ written' = [written EXCEPT
                          ![c] = Some([dir |-> sessionDir(c),
                                       name |-> sourceName(req[c].language,
                                                           req[c].code),
                                       content |-> sourceText(req[c].language,
                                                              req[c].code)])]
        /\ pc' = [pc EXCEPT ![c] = "spawn"]
        /\ UNCHANGED <<pending, outcome>>
     \/ /\ \E e \in FsErrors : raise(c, FsError(e, "open"))
        /\ UNCHANGED written
  /\ UNCHANGED <<req, sessionId, promise, cleanup, cproc, rproc, dirs, nextId>>
  /\ UNCHANGED tooling


\* -------------------------------------------------------- child processes
\* a spawn whose caller writes the input and leaves stdin open
spawnWithoutEnd(file, fileDir, args, cwd, failure, feed) ==
  [st |-> IF failure = None THEN "running" ELSE "failed",
   file |-> file, fileDir |-> fileDir, args |-> args, cwd |-> Some(cwd),
   out |-> << >>, err |-> << >>, chunks |-> 0,
   wrote |-> << >>, timer |-> IF failure = None THEN "armed" ELSE "off",
   stdin |-> IF feed # << >>
             THEN [writes |-> <<feed>>, ended |-> FALSE]
             ELSE [writes |-> << >>, ended |-> FALSE],
   code |-> None, errno |-> failure]

\* spawn(file, args, {cwd, timeout}): the child-process object.  A failing
\* spawn still returns the object; its 'error' event comes later.  file is
\* the last component of the command and fileDir its directory, absent for
\* a command that is looked up on PATH.  feed is
\* the text of the "if (input) { stdin.write(input); stdin.end(); }" that
\* follows the spawn of a run stage.  out and err are the accumulators of
\* the 'data' handlers; wrote is what the process itself has written, in
\* the order of its writes.
spawn(file, fileDir, args, cwd, failure, feed) ==
  [st |-> IF failure = None THEN "running" ELSE "failed",
   file |-> file, fileDir |-> fileDir, args |-> args, cwd |-> Some(cwd),
   out |-> << >>, err |-> << >>, chunks |-> 0,
   wrote |-> << >>, timer |-> IF failure = None THEN "armed" ELSE "off",
   stdin |-> IF feed # << >>
             THEN [writes |-> <<feed>>, ended |-> TRUE]
             ELSE [writes |-> << >>, ended |-> FALSE],
   code |-> None, errno |-> failure]

SpawnFailures == {None} \cup {Some(e) : e \in SpawnErrors}

\* err.message of the 'error' event of a process that could not be spawned
spawnMessage(p) == <<"spawn ">> \o p.file \o <<" ", p.errno[1]>>

\* a process that ended: its streams are closed and 'close' is delivered
closed(p, code, timer) == [p EXCEPT !.st = "closed", !.code = code, !.timer = timer]
timerAfterExit(p) == IF p.timer = "fired" THEN "fired" ELSE "off"

\* a spawn call that leaves the child in the directory of all sessions
spawnStageInTempDir(c, stage, failure) ==
  spawn(IF Resolved(req[c].language, stage)
        THEN resolveBinary(env, command(req[c].language, stage))
        ELSE <<command(req[c].language, stage)>>,
        commandDir(req[c].language, stage, sessionDir(c)),
        arguments(req[c].language, stage, sessionDir(c), req[c].code),
        <<TEMP_DIR, 0>>, failure,
        IF stage = "run" THEN req[c].input ELSE << >>)

\* the spawn call of a stage of the pipeline of call c
spawnStage(c, stage, failure) ==
  spawn(IF Resolved(req[c].language, stage)
        THEN resolveBinary(env, command(req[c].language, stage))
        ELSE <<command(req[c].language, stage)>>,
        commandDir(req[c].language, stage, sessionDir(c)),
        arguments(req[c].language, stage, sessionDir(c), req[c].code),
        sessionDir(c), failure,
        IF stage = "run" THEN req[c].input ELSE << >>)

\* a startPipeline that does not spawn a tool a probe reported unavailable
startPipelineGated(c) ==
  /\ pc[c] = "spawn"
  /\ ~\E h \in DOMAIN probes :
        /\ probes[h].value # None
        /\ \E i \in DOMAIN probes[h].value[1] :
             /\ probes[h].value[1][i].name =
                  command(req[c].language,
                          IF req[c].language \in Compiled THEN "compile" ELSE "run")
             /\ ~probes[h].value[1][i].available
  /\ promise' = [promise EXCEPT ![c] = [state |-> "pending", value |-> None,
                                          executionTime |-> None]]
  /\ pc' = [pc EXCEPT ![c] = "await"]
  /\ \E failure \in SpawnFailures :
       IF req[c].language \in Compiled
       THEN /\ cproc' = [cproc EXCEPT ![c] = spawnStage(c, "compile", failure)]
            /\ UNCHANGED rproc
       ELSE /\ rproc' = [rproc EXCEPT ![c] = spawnStage(c, "run", failure)]
            /\ UNCHANGED cproc
  /\ UNCHANGED <<req, sessionId, pending, outcome, cleanup, written, dirs, nextId>>
  /\ UNCHANGED tooling

\* The promise executor of a language function: the first stage is spawned.
startPipeline(c) ==
  /\ pc[c] = "spawn"
  /\ promise' = [promise EXCEPT ![c] = [state |-> "pending", value |-> None,
                                          executionTime |-> None]]
  /\ pc' = [pc EXCEPT ![c] = "await"]
  /\ \E failure \in SpawnFailures :
       IF req[c].language \in Compiled
       THEN /\ cproc' = [cproc EXCEPT ![c] = spawnStage(c, "compile", failure)]
            /\ UNCHANGED rproc
       ELSE /\ rproc' = [rproc EXCEPT ![c] = spawnStage(c, "run", failure)]
            /\ UNCHANGED cproc
  /\ UNCHANGED <<req, sessionId, pending, outcome, cleanup, written, dirs, nextId>>
  /\ UNCHANGED tooling

\* a 'close' handler of the compile stage that does not look at compileCode
onCompileCloseAlwaysRuns(c, compileCode) ==
  /\ \E failure \in SpawnFailures :
       rproc' = [rproc EXCEPT ![c] = spawnStage(c, "run", failure)]
  /\ UNCHANGED <<promise, pending, pc>>

\* compileProcess.on('close', (compileCode) => ...)
onCompileClose(c, compileCode) ==
  IF compileCode # Some(0)
  THEN /\ resolve(c, Result(<< >>,
                            <<"Compilation failed: ">> \o cproc[c].err,
                            compileCode))
       /\ UNCHANGED rproc
  ELSE /\ \E failure \in SpawnFailures :
            rproc' = [rproc EXCEPT ![c] = spawnStage(c, "run", failure)]
       /\ UNCHANGED <<promise, pending, pc>>

\* compileProcess.on('error', (err) => ...)
onCompileError(c, err) ==
  resolve(c, Result(<< >>, <<compilerLabel(req[c].language)>> \o err, Some(1)))

\* accumulators declared once for the module instead of once per call: the
\* 'data' handlers of every running call append to the same two strings
RECURSIVE sharedText(_, _)
sharedText(f, S) ==
  IF S = {}
  THEN << >>
  ELSE LET d == CHOOSE x \in S : \A y \in S : x <= y
       IN  f[d] \o sharedText(f, S \ {d})

onRunCloseSharedAccumulators(c, code) ==
  resolve(c, Result(trim(sharedText([d \in Calls |-> rproc[d].out], Calls)),
                    trim(sharedText([d \in Calls |-> rproc[d].err], Calls)),
                    code))

\* a 'close' handler that reports a killed process without its output
onRunCloseDropsPartial(c, code) ==
  resolve(c, IF code = None
             THEN Result(<< >>, << >>, code)
             ELSE Result(trim(rproc[c].out), trim(rproc[c].err), code))

\* process.on('close', (code) => ...) and runProcess.on('close', ...)
onRunClose(c, code) ==
  resolve(c, Result(trim(rproc[c].out), trim(rproc[c].err), code))

\* a run stage without an 'error' handler: nothing settles the promise
onRunErrorUnhandled(c, err) ==
  UNCHANGED <<promise, pending, pc>>

\* process.on('error', (err) => ...) and runProcess.on('error', ...)
onRunError(c, err) ==
  resolve(c, Result(<< >>, err, Some(1)))

\* compileProcess.stderr.on('data', ...)
compileStderrData(c) ==
  /\ cproc[c].st = "running"
  /\ cproc[c].chunks + rproc[c].chunks < MaxChunks
  /\ \E data \in Chunks :
       cproc' = [cproc EXCEPT ![c].err = @ \o data, ![c].chunks = @ + 1,
                              ![c].wrote = Append(@, <<"stderr", data>>)]
  /\ UNCHANGED <<pc, req, sessionId, promise, pending, outcome, cleanup, rproc,
                 written, dirs, nextId>>
  /\ UNCHANGED tooling

\* The compiler ends by itself; 'close' is delivered with its exit code.
compileExit(c) ==
  /\ cproc[c].st = "running"
  /\ \E code \in ExitCodes :
       /\ cproc' = [cproc EXCEPT
                      ![c] = closed(@, Some(code), timerAfterExit(@))]
       /\ onCompileClose(c, Some(code))
  /\ UNCHANGED <<req, sessionId, outcome, cleanup, written, dirs, nextId>>
  /\ UNCHANGED tooling

\* timeout: EXECUTION_TIMEOUT of the compile stage expires: the compiler is
\* sent the kill signal and ends; 'close' is delivered with code null.
compileTimeout(c) ==
  /\ cproc[c].st = "running"
  /\ cproc[c].timer = "armed"
  /\ cproc' = [cproc EXCEPT ![c] = closed(@, None, "fired")]
  /\ onCompileClose(c, None)
  /\ UNCHANGED <<req, sessionId, outcome, cleanup, written, dirs, nextId>>
  /\ UNCHANGED tooling

\* 'error' of a compile stage that could not be spawned
compileSpawnError(c) ==
  /\ cproc[c].st = "failed"
  /\ cproc' = [cproc EXCEPT ![c].st = "errored"]
  /\ onCompileError(c, spawnMessage(cproc[c]))
  /\ UNCHANGED <<req, sessionId, outcome, cleanup, rproc, written, dirs, nextId>>
  /\ UNCHANGED tooling

\* a 'close' after the 'error' of a failed spawn that reports exit code 0
compileCloseAfterErrorCodeZero(c) ==
  /\ cproc[c].st = "errored"
  /\ cproc' = [cproc EXCEPT ![c] = closed(@, Some(0), "off")]
  /\ onCompileClose(c, Some(0))
  /\ UNCHANGED <<req, sessionId, outcome, cleanup, written, dirs, nextId>>
  /\ UNCHANGED tooling

\* 'close' that follows the 'error' of a failed spawn, with the negative errno
compileCloseAfterError(c) ==
  /\ cproc[c].st = "errored"
  /\ LET code == Some(errnoOf(cproc[c].errno[1]))
     IN  /\ cproc' = [cproc EXCEPT ![c] = closed(@, code, "off")]
         /\ onCompileClose(c, code)
  /\ UNCHANGED <<req, sessionId, outcome, cleanup, written, dirs, nextId>>
  /\ UNCHANGED tooling

\* process.stdout.on('data', ...) of a run stage
runStdoutData(c) ==
  /\ rproc[c].st = "running"
  /\ cproc[c].chunks + rproc[c].chunks < MaxChunks
  /\ \E data \in Chunks :
       rproc' = [rproc EXCEPT ![c].out = @ \o data, ![c].chunks = @ + 1,
                              ![c].wrote = Append(@, <<"stdout", data>>)]
  /\ UNCHANGED <<pc, req, sessionId, promise, pending, outcome, cleanup, cproc,
                 written, dirs, nextId>>
  /\ UNCHANGED tooling

\* process.stderr.on('data', ...) of a run stage
runStderrData(c) ==
  /\ rproc[c].st = "running"
  /\ cproc[c].chunks + rproc[c].chunks < MaxChunks
  /\ \E data \in Chunks :
       rproc' = [rproc EXCEPT ![c].err = @ \o data, ![c].chunks = @ + 1,
                              ![c].wrote = Append(@, <<"stderr", data>>)]
  /\ UNCHANGED <<pc, req, sessionId, promise, pending, outcome, cleanup, cproc,
                 written, dirs, nextId>>
  /\ UNCHANGED tooling

\* The program ends by itself; 'close' is delivered with its exit code.
runExit(c) ==
  /\ rproc[c].st = "running"
  /\ \E code \in ExitCodes :
       /\ rproc' = [rproc EXCEPT
                      ![c] = closed(@, Some(code), timerAfterExit(@))]
       /\ onRunClose(c, Some(code))
  /\ UNCHANGED <<req, sessionId, outcome, cleanup, cproc, written, dirs, nextId>>
  /\ UNCHANGED tooling

\* timeout: EXECUTION_TIMEOUT of a run stage expires: the child is sent the
\* default kill signal, SIGTERM.  A program that leaves the signal at its
\* default ends and 'close' is delivered with code null; a program that
\* handles or ignores the signal keeps running.
runTimeout(c) ==
  /\ rproc[c].st = "running"
  /\ rproc[c].timer = "armed"
  /\ \/ /\ rproc' = [rproc EXCEPT ![c] = closed(@, None, "fired")]
        /\ onRunClose(c, None)
     \/ /\ rproc' = [rproc EXCEPT ![c].timer = "fired"]
        /\ UNCHANGED <<promise, pending, pc>>
  /\ UNCHANGED <<req, sessionId, outcome, cleanup, cproc, written, dirs, nextId>>
  /\ UNCHANGED tooling

\* 'error' of a run stage that could not be spawned
runSpawnError(c) ==
  /\ rproc[c].st = "failed"
  /\ rproc' = [rproc EXCEPT ![c].st = "errored"]
  /\ onRunError(c, spawnMessage(rproc[c]))
  /\ UNCHANGED <<req, sessionId, outcome, cleanup, cproc, written, dirs, nextId>>
  /\ UNCHANGED tooling

\* 'close' that follows the 'error' of a failed spawn
runCloseAfterError(c) ==
  /\ rproc[c].st = "errored"
  /\ LET code == Some(errnoOf(rproc[c].errno[1]))
     IN  /\ rproc' = [rproc EXCEPT ![c] = closed(@, code, "off")]
         /\ onRunClose(c, code)
  /\ UNCHANGED <<req, sessionId, outcome, cleanup, cproc, written, dirs, nextId>>
  /\ UNCHANGED tooling

\* ---------------------------------------------------------- finally block
\* a cleanup that reports success without removing the session directory
removeKeepsDirectory(c) ==
  /\ pc[c] = "finally"
  /\ cleanup' = [cleanup EXCEPT ![c] = "removed"]
  /\ outcome' = [outcome EXCEPT ![c] = pending[c]]
  /\ pc' = [pc EXCEPT ![c] = "done"]
  /\ UNCHANGED <<req, sessionId, promise, pending, cproc, rproc, written, dirs,
                 nextId>>
  /\ UNCHANGED tooling

\* a finally block without its inner try/catch: a failing removal replaces
\* the completion of the try block
removeThrowsFailure(c) ==
  /\ pc[c] = "finally"
  /\ \/ /\ dirs' = dirs \ {sessionDir(c)}
        /\ cleanup' = [cleanup EXCEPT ![c] = "removed"]
        /\ outcome' = [outcome EXCEPT ![c] = pending[c]]
     \/ /\ cleanup' = [cleanup EXCEPT ![c] = "failed"]
        /\ \E e \in FsErrors :
             outcome' = [outcome EXCEPT ![c] = Some(Thrown(FsError(e, "rm")))]
        /\ UNCHANGED dirs
  /\ pc' = [pc EXCEPT ![c] = "done"]
  /\ UNCHANGED <<req, sessionId, promise, pending, cproc, rproc, written,
                 nextId>>
  /\ UNCHANGED tooling

\* await fs.remove(sessionDir) completes; a failure is logged and dropped.
\* Then the completion of the try block reaches the caller.
remove(c) ==
  /\ pc[c] = "finally"
  /\ \/ /\ dirs' = dirs \ {sessionDir(c)}
        /\ cleanup' = [cleanup EXCEPT ![c] = "removed"]
     \/ /\ cleanup' = [cleanup EXCEPT ![c] = "failed"]
        /\ UNCHANGED dirs
  /\ outcome' = [outcome EXCEPT ![c] = pending[c]]
  /\ pc' = [pc EXCEPT ![c] = "done"]
  /\ UNCHANGED <<req, sessionId, promise, pending, cproc, rproc, written,
                 nextId>>
  /\ UNCHANGED tooling

\* The caller has taken the completion and every event of the call's
\* processes has been delivered: the call's objects are garbage.
release(c) ==
  /\ pc[c] = "done"
  /\ cproc[c].st \in {"none", "closed"}
  /\ rproc[c].st \in {"none", "closed"}
  /\ pc' = [pc EXCEPT ![c] = "returned"]
  /\ req' = [req EXCEPT ![c] = NoRequest]
  /\ sessionId' = [sessionId EXCEPT ![c] = 0]
  /\ promise' = [promise EXCEPT ![c] = NoPromise]
  /\ pending' = [pending EXCEPT ![c] = None]
  /\ outcome' = [outcome EXCEPT ![c] = None]
  /\ cleanup' = [cleanup EXCEPT ![c] = "none"]
  /\ cproc' = [cproc EXCEPT ![c] = NoProcess]
  /\ rproc' = [rproc EXCEPT ![c] = NoProcess]
  /\ written' = [written EXCEPT ![c] = None]
  /\ UNCHANGED <<dirs, nextId>>
  /\ started' = [started EXCEPT ![c] = None]
  /\ UNCHANGED <<env, probes, now, win, web>>

\* ----------------------------------------- checkBinary, getBinaryStatuses
\* what checkBinary and getBinaryStatuses never assign
engine ==
  <<pc, req, sessionId, promise, pending, outcome, cleanup, cproc, rproc,
    written, dirs, nextId, env, now, started, win, web>>

\* { name, path, available, version, error }
Status(name, path, available, version, error) ==
  [name |-> name, path |-> path, available |-> available, version |-> version,
   error |-> error]

\* const args = (name === 'java' || name === 'javac') ? ['-version'] : ['--version']
versionArgs(name) ==
  IF name = "java" \/ name = "javac" THEN <<"-version">> ELSE <<"--version">>

\* the promise executor of checkBinary(name): const proc = spawn(bin, args)
checkBinary(name, failure) ==
  [st |-> IF failure = None THEN "running" ELSE "failed",
   name |-> name, file |-> resolveBinary(env, name), args |-> versionArgs(name),
   out |-> << >>, err |-> << >>, chunks |-> 0, code |-> None,
   errno |-> failure, status |-> None]

\* resolve(status) of the promise of checkBinary: the first call settles it
settle(p, status) ==
  IF p.status = None THEN [p EXCEPT !.status = Some(status)] ELSE p

\* proc.on('error', (e) => ...)
onProbeError(p, message) ==
  settle(p, Status(p.name, p.file, FALSE, << >>, message))

\* a 'close' handler that reports every probe that closed as available
onProbeCloseAlwaysAvailable(p, code) ==
  settle(p, Status(p.name, p.file, TRUE,
                   trim(IF p.out # << >> THEN p.out ELSE p.err), << >>))

\* proc.on('close', (code) => ...): const text = (out || err).trim()
onProbeClose(p, code) ==
  settle(p, Status(p.name, p.file, code = Some(0),
                   trim(IF p.out # << >> THEN p.out ELSE p.err),
                   IF code = Some(0) THEN << >> ELSE trim(p.err)))

\* the statuses of a call that returned are with its caller, who has sent
\* them by the time the next call is made
forget(slot) == IF slot.st = "returned" THEN [slot EXCEPT !.value = None] ELSE slot

\* a getBinaryStatuses that answers from the result of an earlier call
getBinaryStatusesCached(h) ==
  /\ probes[h].st = "idle"
  /\ \A g \in Health : probes[g].st \in {"idle", "returned"}
  /\ \A g \in Health : g < h => probes[g].st # "idle"
  /\ IF \E g \in Health : probes[g].value # None
     THEN \E g \in Health :
            /\ probes[g].value # None
            /\ probes' = [k \in Health |->
                            IF k = h
                            THEN [probes[h] EXCEPT !.st = "resolved",
                                                   !.value = probes[g].value]
                            ELSE forget(probes[k])]
     ELSE \E failure \in [1..Len(targets) -> SpawnFailures] :
            probes' = [probes EXCEPT
                         ![h].st = "probing",
                         ![h].procs = [i \in 1..Len(targets) |->
                                         checkBinary(targets[i], failure[i])]]
  /\ UNCHANGED engine

\* getBinaryStatuses(): targets.map(checkBinary) spawns one probe per
\* target, in the order of the list, before anything else happens.  One call
\* is made at a time.
getBinaryStatuses(h) ==
  /\ probes[h].st = "idle"
  /\ \A g \in Health : probes[g].st \in {"idle", "returned"}
  /\ \A g \in Health : g < h => probes[g].st # "idle"
  /\ \E failure \in [1..Len(targets) -> SpawnFailures] :
       probes' = [k \in Health |->
                   IF k = h
                   THEN [probes[h] EXCEPT
                           !.st = "probing",
                           !.procs = [i \in 1..Len(targets) |->
                                        checkBinary(targets[i], failure[i])]]
                   ELSE forget(probes[k])]
  /\ UNCHANGED engine

\* number of 'data' events the probes of a call have delivered
RECURSIVE probeChunks(_, _)
probeChunks(h, n) ==
  IF n = 0 THEN 0 ELSE probes[h].procs[n].chunks + probeChunks(h, n - 1)

\* proc.stdout.on('data', (d) => { out += d.toString(); })
probeStdoutData(h, i) ==
  /\ probes[h].procs[i].st = "running"
  /\ probeChunks(h, Len(targets)) < MaxChunks
  /\ \E data \in Chunks :
       probes' = [probes EXCEPT ![h].procs[i].out = @ \o data,
                                ![h].procs[i].chunks = @ + 1]
  /\ UNCHANGED engine

\* proc.stderr.on('data', (d) => { err += d.toString(); })
probeStderrData(h, i) ==
  /\ probes[h].procs[i].st = "running"
  /\ probeChunks(h, Len(targets)) < MaxChunks
  /\ \E data \in Chunks :
       probes' = [probes EXCEPT ![h].procs[i].err = @ \o data,
                                ![h].procs[i].chunks = @ + 1]
  /\ UNCHANGED engine

\* The probed tool ends; 'close' is delivered with its exit code.
probeExit(h, i) ==
  /\ probes[h].procs[i].st = "running"
  /\ \E code \in ExitCodes :
       probes' = [probes EXCEPT
                    ![h].procs[i] =
                      onProbeClose([@ EXCEPT !.st = "closed", !.code = Some(code)],
                                   Some(code))]
  /\ UNCHANGED engine

\* 'error' of a probe that could not be spawned
probeSpawnError(h, i) ==
  /\ probes[h].procs[i].st = "failed"
  /\ probes' = [probes EXCEPT
                  ![h].procs[i] =
                    onProbeError([@ EXCEPT !.st = "errored"], spawnMessage(@))]
  /\ UNCHANGED engine

\* 'close' that follows the 'error' of a failed spawn
probeCloseAfterError(h, i) ==
  /\ probes[h].procs[i].st = "errored"
  /\ LET code == Some(errnoOf(probes[h].procs[i].errno[1]))
     IN  probes' = [probes EXCEPT
                      ![h].procs[i] =
                        onProbeClose([@ EXCEPT !.st = "closed", !.code = code],
                                     code)]
  /\ UNCHANGED engine

\* a getBinaryStatuses that returns the entries of the available tools only
returnStatusesAvailableOnly(h) ==
  /\ probes[h].st = "probing"
  /\ \A i \in 1..Len(targets) : probes[h].procs[i].status # None
  /\ probes' = [probes EXCEPT
                  ![h].st = "resolved",
                  ![h].value =
                    Some(SelectSeq([i \in 1..Len(targets) |->
                                      probes[h].procs[i].status[1]],
                                   LAMBDA s : s.available))]
  /\ UNCHANGED engine

\* Promise.all(...) is fulfilled when every checkBinary promise is: the
\* statuses, in the order of targets, are returned.
returnStatuses(h) ==
  /\ probes[h].st = "probing"
  /\ \A i \in 1..Len(targets) : probes[h].procs[i].status # None
  /\ probes' = [probes EXCEPT
                  ![h].st = "resolved",
                  ![h].value = Some([i \in 1..Len(targets) |->
                                       probes[h].procs[i].status[1]])]
  /\ UNCHANGED engine

\* The caller has the statuses and every event of the probes has been
\* delivered: the probe objects are garbage.
releaseStatuses(h) ==
  /\ probes[h].st = "resolved"
  /\ \A i \in 1..Len(targets) : probes[h].procs[i].st \in {"none", "closed"}
  /\ probes' = [probes EXCEPT
                  ![h].st = "returned",
                  ![h].procs = [i \in 1..Len(targets) |-> NoProbe]]
  /\ UNCHANGED engine

\* The health check alone: GET /api/health/binaries, one request at a time.
ProbeNext ==
  \E h \in Health :
    \/ getBinaryStatuses(h)
    \/ returnStatuses(h)
    \/ releaseStatuses(h)
    \/ \E i \in 1..Len(targets) :
         \/ probeStdoutData(h, i)
         \/ probeStderrData(h, i)
         \/ probeExit(h, i)
         \/ probeSpawnError(h, i)
         \/ probeCloseAfterError(h, i)

ProbeSpec == Init /\ [][ProbeNext]_vars

\* ---------------------------------------------------------- specification
\* A caller that issues its calls one after the other: the next call starts
\* when the objects of the previous one have been released.
call(c) ==
  /\ \A d \in Calls : pc[d] \in {"idle", "returned"}
  /\ \E r \in Requests : executeCode(c, r)

Next ==
  \E c \in Calls :
    \/ call(c)
    \/ ensureDir(c)
    \/ dispatch(c)
    \/ writeFile(c)
    \/ startPipeline(c)
    \/ compileStderrData(c)
    \/ compileExit(c)
    \/ compileTimeout(c)
    \/ compileSpawnError(c)
    \/ compileCloseAfterError(c)
    \/ runStdoutData(c)
    \/ runStderrData(c)
    \/ runExit(c)
    \/ runTimeout(c)
    \/ runSpawnError(c)
    \/ runCloseAfterError(c)
    \/ remove(c)
    \/ release(c)

Spec == Init /\ [][Next]_vars


\* A scheduler that runs every pending continuation, delivers every pending
\* event and fires every armed timer.  Nothing makes a child process write
\* or end by itself.
Fairness ==
  \A c \in Calls :
    /\ WF_vars(ensureDir(c))
    /\ WF_vars(dispatch(c))
    /\ WF_vars(writeFile(c))
    /\ WF_vars(startPipeline(c))
    /\ WF_vars(compileTimeout(c))
    /\ WF_vars(compileSpawnError(c))
    /\ WF_vars(compileCloseAfterError(c))
    /\ WF_vars(runTimeout(c))
    /\ WF_vars(runSpawnError(c))
    /\ WF_vars(runCloseAfterError(c))
    /\ WF_vars(remove(c))

FairSpec == Init /\ [][Next]_vars /\ Fairness

\* Callers that do not wait for each other: the route handler is entered
\* for every request that arrives, so calls overlap.  The requests are a
\* part of Requests: an interpreted, a compiled and an unsupported language.
ConcRequests ==
  {r \in Requests :
     \/ r.language = "javascript" /\ r.code = <<"x", "=", "1">>
          /\ r.input = <<"h", "i">>
     \/ r.language = "c" /\ r.input = << >>
     \/ r.language = "ruby" /\ r.input = << >>}

concurrentCall(c) == pc[c] = "idle" /\ \E r \in ConcRequests : executeCode(c, r)

ConcNext ==
  \E c \in Calls :
    \/ concurrentCall(c)
    \/ ensureDir(c)
    \/ dispatch(c)
    \/ writeFile(c)
    \/ startPipeline(c)
    \/ compileStderrData(c)
    \/ compileExit(c)
    \/ compileTimeout(c)
    \/ compileSpawnError(c)
    \/ compileCloseAfterError(c)
    \/ runStdoutData(c)
    \/ runStderrData(c)
    \/ runExit(c)
    \/ runTimeout(c)
    \/ runSpawnError(c)
    \/ runCloseAfterError(c)
    \/ remove(c)
    \/ release(c)

ConcInit == Loaded /\ env = NoEnv /\ win = NoWin /\ client = NoClient

ConcSpec == ConcInit /\ [][ConcNext]_vars

\* The content checks on generated source texts: one caller submits
\* javascript and python programs put together from fragments, and the
\* interpreter of an accepted program runs to its end.
RECURSIVE Concats(_, _)
Concats(F, n) ==
  IF n = 0
  THEN {<< >>}
  ELSE LET S == Concats(F, n - 1) IN S \cup {s \o f : s \in S, f \in F}

JsFragments ==
  {REQUIRE_CALL, ALLOW_REQUIRE, <<"\n">>, <<"x">>,
   <<"r", "e", "q", "u", "i", "r", "e">>, <<"/", "/", " ">>}
PyFragments ==
  {IMPORT_, FROM_, <<"o", "s">>, <<"s", "y", "s">>, <<"x">>, <<"x", ",">>,
   <<" ">>, <<"\n">>, <<" ", "i", "m", "p", "o", "r", "t", " ", "x">>}

ValidatorRequests ==
  [code : Concats(JsFragments, MaxFragments) \ {<< >>},
   language : {"javascript"}, input : {<< >>}]
    \cup [code : Concats(PyFragments, MaxFragments) \ {<< >>},
          language : {"python"}, input : {<< >>}]

submit(c) == pc[c] = "idle" /\ \E r \in ValidatorRequests : executeCode(c, r)

ValidatorNext ==
  \/ submit(1)
  \/ ensureDir(1)
  \/ dispatch(1)
  \/ writeFile(1)
  \/ startPipeline(1)
  \/ runExit(1)
  \/ remove(1)

ValidatorSpec == Init /\ [][ValidatorNext]_vars

\* The preparation of the source file on generated texts: one caller
\* submits java and php programs put together from fragments; the pipeline
\* runs to its end.
JavaFragments ==
  {PUBLIC \o <<" ">> \o CLASS \o <<" ">>, PUBLIC \o <<" ">>, CLASS \o <<" ">>,
   <<"A">>, <<"B", "1", "{", "}">>, <<" ">>, <<"\n">>,
   PUBLIC \o <<"\t">> \o CLASS \o <<" ", "C", " ">>}
PhpFragments ==
  {PHP_OPEN, <<"<", "?">>, <<"p", "h", "p">>, <<" ">>, <<"\n">>,
   <<"e", "c", "h", "o", " ", "1", ";">>}

SourceRequests ==
  [code : Concats(JavaFragments, MaxFragments) \ {<< >>},
   language : {"java"}, input : {<< >>}]
    \cup [code : Concats(PhpFragments, MaxFragments) \ {<< >>},
          language : {"php"}, input : {<< >>}]

submitSource(c) == pc[c] = "idle" /\ \E r \in SourceRequests : executeCode(c, r)

SourceNext ==
  \/ submitSource(1)
  \/ ensureDir(1)
  \/ dispatch(1)
  \/ writeFile(1)
  \/ startPipeline(1)
  \/ compileExit(1)
  \/ runExit(1)
  \/ remove(1)

SourceSpec == Init /\ [][SourceNext]_vars

\* The resolution of the toolchain commands in every environment: one
\* caller submits a program of each language that spawns a resolved command
\* (and of javascript, which does not), and the pipeline runs to its end.
ToolRequests ==
  {r \in Requests :
     /\ r.input = << >>
     /\ \/ r.language \in {"java", "cpp", "c"}
        \/ r.language = "php" /\ r.code = <<"e", "c", "h", "o", " ", "1", ";">>
        \/ r.language = "javascript" /\ r.code = <<"x", "=", "1">>}

submitTool(c) == pc[c] = "idle" /\ \E r \in ToolRequests : executeCode(c, r)

EnvInit == Loaded /\ env \in AllEnvs /\ win = NoWin /\ client = NoClient

EnvNext ==
  \/ submitTool(1)
  \/ ensureDir(1)
  \/ dispatch(1)
  \/ writeFile(1)
  \/ startPipeline(1)
  \/ compileExit(1)
  \/ runExit(1)
  \/ remove(1)

EnvSpec == EnvInit /\ [][EnvNext]_vars

\* Health checks and an execution side by side: calls of getBinaryStatuses,
\* one at a time, while call 1 takes a java or php program through its
\* pipeline.  The probes write nothing, they only succeed or fail.
GateRequests ==
  {r \in Requests :
     /\ r.input = << >>
     /\ \/ r.language = "java" /\ className(r.code) = <<"M", "a", "i", "n">>
        \/ r.language = "php" /\ r.code = <<"e", "c", "h", "o", " ", "1", ";">>}

submitGate(c) == pc[c] = "idle" /\ \E r \in GateRequests : executeCode(c, r)

GateNext ==
  \/ submitGate(1)
  \/ ensureDir(1)
  \/ dispatch(1)
  \/ writeFile(1)
  \/ startPipeline(1)
  \/ compileExit(1)
  \/ compileSpawnError(1)
  \/ compileCloseAfterError(1)
  \/ runExit(1)
  \/ runSpawnError(1)
  \/ runCloseAfterError(1)
  \/ remove(1)
  \/ \E h \in Health :
       \/ getBinaryStatuses(h)
       \/ returnStatuses(h)
       \/ releaseStatuses(h)
       \/ \E i \in 1..Len(targets) :
            \/ probeExit(h, i)
            \/ probeSpawnError(h, i)
            \/ probeCloseAfterError(h, i)

GateSpec == Init /\ [][GateNext]_vars

\* Time passes.
tick ==
  /\ now < Epoch + MaxTicks
  /\ now' = now + 1
  /\ UNCHANGED <<pc, req, sessionId, promise, pending, outcome, cleanup, cproc,
                 rproc, written, dirs, nextId, env, probes, started, win,
                 web>>

\* Executions under a clock: calls, one at a time, of a javascript program
\* that runs or cannot be spawned, while time passes.
ClockRequests ==
  {r \in Requests : r.language = "javascript" /\ r.code = <<"x", "=", "1">>}

submitClock(c) ==
  /\ pc[c] = "idle"
  /\ \A d \in Calls : pc[d] \in {"idle", "returned"}
  /\ \E r \in ClockRequests : executeCode(c, r)

ClockNext ==
  \/ tick
  \/ \E c \in Calls :
       \/ submitClock(c)
       \/ ensureDir(c)
       \/ dispatch(c)
       \/ writeFile(c)
       \/ startPipeline(c)
       \/ runStdoutData(c)
       \/ runExit(c)
       \/ runSpawnError(c)
       \/ runCloseAfterError(c)
       \/ remove(c)
       \/ release(c)

ClockSpec == Init /\ [][ClockNext]_vars

\* ------------------------------------------------ ensureWinExe (older file)
\* the path separators of path.win32
Separators == {"/", "\\"}
EXE == <<".", "e", "x", "e">>
\* the largest member of a non-empty set of numbers
Last(S) == CHOOSE i \in S : \A j \in S : j <= i

\* path.extname(p) as path.win32 computes it: the text from the last dot of
\* the last component to its end; empty when the component has no dot,
\* starts with its only dot, or is '..'.  A drive prefix and trailing
\* separators are skipped.
extname(p) ==
  LET root == IF Len(p) >= 2 /\ p[2] = ":" THEN 2 ELSE 0
      named == {i \in (root + 1)..Len(p) : p[i] \notin Separators}
  IN  IF named = {}
      THEN << >>
      ELSE LET end == Last(named)
               seps == {i \in (root + 1)..end : p[i] \in Separators}
               startPart == IF seps = {} THEN root + 1 ELSE Last(seps) + 1
               dots == {i \in startPart..end : p[i] = "."}
           IN  IF dots = {}
               THEN << >>
               ELSE LET startDot == Last(dots)
                        preDots == \A i \in startPart..(startDot - 1) : p[i] = "."
                    IN  IF \/ startDot = startPart
                           \/ preDots /\ startDot = end /\ startDot = startPart + 1
                        THEN << >>
                        ELSE slice(p, startDot, end)

\* an ensureWinExe that appends the suffix on every platform
ensureWinExeOnAnyPlatform(w, candidate) ==
  IF w.fsError
  THEN candidate
  ELSE IF extname(candidate) = << >> /\ (candidate \o EXE) \in w.disk
       THEN candidate \o EXE
       ELSE candidate

\* ensureWinExe(candidate) on host w; fs.pathExistsSync is inside try/catch
ensureWinExe(w, candidate) ==
  IF w.platform # "win32"
  THEN candidate
  ELSE IF extname(candidate) = << >>
       THEN IF w.fsError
            THEN candidate
            ELSE IF (candidate \o EXE) \in w.disk
                 THEN candidate \o EXE
                 ELSE candidate
       ELSE candidate

\* the names of the tools as texts
GCC == <<"g", "c", "c">>
GPP == <<"g", "+", "+">>
toolText(name) ==
  CASE name = "gcc" -> GCC
    [] name = "g++" -> GPP
    [] OTHER -> <<"j", "a", "v", "a">>

\* the resolveBinary of the file that has ensureWinExe: only gcc and g++
\* have overrides; an empty override is no override
resolveBinaryWinExe(w, e, name) ==
  IF name = "gcc"
  THEN LET fromEnv == e.GCC_PATH
       IN  IF fromEnv # None /\ fromEnv[1] # << >>
           THEN ensureWinExe(w, fromEnv[1]) ELSE GCC
  ELSE IF name = "g++"
       THEN LET fromEnv == IF e.GPP_PATH # None /\ e.GPP_PATH[1] # << >>
                           THEN e.GPP_PATH ELSE e.GXX_PATH
            IN  IF fromEnv # None /\ fromEnv[1] # << >>
                THEN ensureWinExe(w, fromEnv[1]) ELSE GPP
       ELSE toolText(name)

\* Paths an override may hold, put together from a drive, a directory with
\* a dot in its name, a letter and a dot.
WinFragments ==
  {<<"C", ":", "\\">>, <<"d", ".", "v", "\\">>, <<"g">>, <<".">>, <<"/">>}
WinPaths == Concats(WinFragments, MaxFragments) \ {<< >>}

\* process.env of the host: one override set (to a path or to the empty
\* text), or both overrides of g++ set; here the values are texts
WinEnvs ==
  {[NoEnv EXCEPT ![v] = Some(p)] :
     v \in {"GCC_PATH", "GPP_PATH", "GXX_PATH"}, p \in WinPaths \cup {<< >>}}
    \cup {[NoEnv EXCEPT !["GPP_PATH"] = Some(p), !["GXX_PATH"] = Some(<<"g">>)] :
            p \in {<< >>, <<"C", ":", "\\", "g">>}}
    \cup {NoEnv}

\* what exists on the disk of the host: nothing, a suffixed file for every
\* path and tool name, or suffixed files in the working directory only
WinDisks ==
  {{}, {p \o EXE : p \in WinPaths \cup {GCC, GPP}},
   {p \o EXE : p \in {q \in WinPaths \cup {GCC, GPP} :
                        \A i \in 1..Len(q) : q[i] \notin Separators}}}

WinInit ==
  /\ Loaded
  /\ client = NoClient
  /\ env \in WinEnvs
  /\ \E platform \in {"win32", "linux"}, disk \in WinDisks, fsError \in BOOLEAN :
       win = [NoWin EXCEPT !.platform = platform, !.disk = disk,
                           !.fsError = fsError]

\* resolveBinary(name) is called
resolveCompiler(name) ==
  /\ win' = [win EXCEPT !.name = name,
                        !.bin = Some(resolveBinaryWinExe(win, env, name))]
  /\ UNCHANGED <<pc, req, sessionId, promise, pending, outcome, cleanup, cproc,
                 rproc, written, dirs, nextId, env, probes, now, started,
                 web>>

WinNext == \E name \in {"gcc", "g++", "java"} : resolveCompiler(name)

WinSpec == WinInit /\ [][WinNext]_vars

\* ------------------------------------------------- POST /execute (route)
\* what the routes never assign
backend ==
  <<pc, req, sessionId, promise, pending, outcome, cleanup, cproc, rproc,
    written, dirs, nextId, env, probes, now, started, win>>

\* if (code.length > 50000)
MAX_CODE == 50000
\* const supportedLanguages = [...]
supportedLanguages == {"javascript", "python", "java", "cpp", "c", "php"}

\* String.prototype.toLowerCase on the names a request may carry
toLowerCase(s) ==
  CASE s = "PYTHON" -> "python"
    [] s = "JavaScript" -> "javascript"
    [] OTHER -> s

\* !code: undefined, null, the empty string and the number 0 are falsy
falsyCode(v) ==
  \/ v.type \in {"undefined", "null"}
  \/ v.type = "string" /\ v.text = << >>
  \/ v.type = "number" /\ v.text = <<"0">>
\* !language
falsyLanguage(v) ==
  \/ v.type \in {"undefined", "null"}
  \/ v.type = "string" /\ v.text = ""
  \/ v.type = "number" /\ v.text = "0"

\* a route that answers 400 to a language that is not a string
routeChecksLanguageType(code, language) ==
  IF falsyCode(code) \/ falsyLanguage(language) THEN Some(400)
  ELSE IF code.type # "string" THEN Some(400)
  ELSE IF trim(code.text) = << >> THEN Some(400)
  ELSE IF language.type # "string" THEN Some(400)
  ELSE IF toLowerCase(language.text) \notin supportedLanguages THEN Some(400)
  ELSE IF Len(code.text) > MAX_CODE THEN Some(400)
  ELSE None

\* The checks of the handler in their order: the status it answers with
\* before executeCode, or None when it goes on to call executeCode.
\* language.toLowerCase() of a value that is not a string throws a
\* TypeError, which the catch block answers with 500.
route(code, language) ==
  IF falsyCode(code) \/ falsyLanguage(language) THEN Some(400)
  ELSE IF code.type # "string" THEN Some(400)
  ELSE IF trim(code.text) = << >> THEN Some(400)
  ELSE IF language.type # "string" THEN Some(500)
  ELSE IF toLowerCase(language.text) \notin supportedLanguages THEN Some(400)
  ELSE IF Len(code.text) > MAX_CODE THEN Some(400)
  ELSE None

\* code and language of the bodies that are posted
RECURSIVE LongCode(_)
LongCode(n) ==
  IF n = 0
  THEN << >>
  ELSE LET half == LongCode(n \div 2)
       IN  half \o half \o (IF n % 2 = 1 THEN <<"a">> ELSE << >>)
BodyCodes ==
  {Undefined, Json("null", << >>), Json("string", << >>),
   Json("string", <<" ", "\n">>), Json("string", <<"x", "=", "1">>),
   Json("number", <<"5">>), Json("number", <<"0">>), Json("array", <<"x">>),
   Json("string", LongCode(MAX_CODE)), Json("string", LongCode(MAX_CODE + 1))}
BodyLanguages ==
  {Json("undefined", ""), Json("string", ""), Json("string", "javascript"),
   Json("string", "JavaScript"), Json("string", "PYTHON"),
   Json("string", "ruby"), Json("number", "5"), Json("array", "python")}

\* express.json() has parsed the body of a POST /execute
arrive(c) ==
  /\ http[c].st = "idle"
  /\ pc[c] = "idle"
  /\ \E code \in BodyCodes, language \in BodyLanguages :
       http' = [http EXCEPT ![c] = [NoExchange EXCEPT !.st = "received",
                                                     !.code = code,
                                                     !.language = language]]
  /\ UNCHANGED backend
  /\ UNCHANGED offRoute

\* router.post('/execute', ...) up to the await of executeCode
postExecute(c) ==
  /\ http[c].st = "received"
  /\ pc[c] = "idle"
  /\ LET answer == route(http[c].code, http[c].language)
     IN  IF answer # None
         THEN /\ http' = [http EXCEPT ![c].st = "responded",
                                      ![c].status = answer]
              /\ UNCHANGED backend
              /\ UNCHANGED offRoute
         ELSE executeCode(c, [code |-> http[c].code.text,
                              language |-> toLowerCase(http[c].language.text),
                              input |-> << >>])

\* executeCode has returned or thrown: res.json or the catch block
respond(c) ==
  /\ http[c].st = "received"
  /\ pc[c] = "done"
  /\ http' = [http EXCEPT
                ![c].st = "responded",
                ![c].called = TRUE,
                ![c].status = IF outcome[c][1].kind = "return"
                              THEN Some(200) ELSE Some(500)]
  /\ UNCHANGED backend
  /\ UNCHANGED offRoute

RouteNext ==
  \/ arrive(1)
  \/ postExecute(1)
  \/ ensureDir(1)
  \/ dispatch(1)
  \/ writeFile(1)
  \/ startPipeline(1)
  \/ runExit(1)
  \/ remove(1)
  \/ respond(1)

RouteSpec == Init /\ [][RouteNext]_vars

\* ----------------------------------------------------- POST /save (route)
\* req.user._id of the requests, and the bodies they carry
SaveUsers == {"u1", "u2"}
SaveBodies ==
  [filename : {<<"a">>, <<" ", "a">>}, code : {<<"1">>, <<"2">>},
   language : {"python"}]
  \cup {[filename |-> << >>, code |-> <<"1">>, language |-> "python"],
        [filename |-> <<" ">>, code |-> <<"1">>, language |-> "python"],
        [filename |-> <<"a">>, code |-> << >>, language |-> "python"],
        [filename |-> <<"a">>, code |-> <<" ">>, language |-> "python"],
        [filename |-> <<"a">>, code |-> <<"1">>, language |-> ""],
        [filename |-> <<"a">>, code |-> <<"1">>, language |-> "ruby"]}

\* filename: { trim: true }: the setter of the schema
setFilename(v) == trim(v)

\* language: { enum: [...] }: the validation a save runs on the document
enumLanguage(doc) == doc.language \in supportedLanguages

\* a collection without the unique index: every insert is accepted
indexNotUnique(doc) == TRUE

\* codeFileSchema.index({ userId: 1, filename: 1 }, { unique: true }): the
\* collection accepts doc only if no document has its userId and filename
uniqueIndex(doc) ==
  ~\E f \in files : f.userId = doc.userId /\ f.filename = doc.filename

\* res.status(status).json(...) ends the handler
answer(s, status) ==
  save' = [save EXCEPT ![s].st = "answered", ![s].status = Some(status)]

\* router.post('/save', ...) from the arrival of the request to the await
\* of CodeFile.findOne
receiveSave(s) ==
  /\ save[s].st = "idle"
  /\ s > 1 => save[s - 1].st # "idle"
  /\ \E userId \in SaveUsers, body \in SaveBodies :
       LET arrived == [NoSave EXCEPT !.userId = userId,
                                     !.filename = body.filename,
                                     !.code = body.code,
                                     !.language = body.language]
       IN  IF \/ body.filename = << >> \/ body.code = << >>
              \/ body.language = ""
              \/ trim(body.filename) = << >>
              \/ trim(body.code) = << >>
           THEN save' = [save EXCEPT ![s] = [arrived EXCEPT
                                               !.st = "answered",
                                               !.status = Some(400)]]
           ELSE save' = [save EXCEPT ![s] = [arrived EXCEPT !.st = "findOne"]]
  /\ UNCHANGED <<http, files, client>>
  /\ UNCHANGED backend

\* CodeFile.findOne({ userId, filename }) is answered by the database; the
\* filename of the filter is cast with or without the setter of the schema,
\* depending on the version of the library.  The handler then assigns the
\* fields of the document it holds or builds a new document, and calls save.
findOne(s) ==
  /\ save[s].st = "findOne"
  /\ \E cast \in {save[s].filename, setFilename(save[s].filename)} :
       LET found == {f \in files : /\ f.userId = save[s].userId
                                   /\ f.filename = cast}
       IN  save' = [save EXCEPT
                      ![s].st = "save",
                      ![s].existingFile =
                        IF found = {} THEN None
                        ELSE Some((CHOOSE f \in found : TRUE).id)]
  /\ UNCHANGED <<http, files, client>>
  /\ UNCHANGED backend

\* await existingFile.save(): the document with the _id of existingFile gets
\* the new code and language; res.json, or the catch block
saveExisting(s) ==
  /\ save[s].st = "save"
  /\ save[s].existingFile # None
  /\ LET changed(f) == [f EXCEPT !.code = save[s].code,
                                 !.language = save[s].language]
     IN  IF /\ \E f \in files : f.id = save[s].existingFile[1]
            /\ enumLanguage([language |-> save[s].language])
         THEN /\ files' = {IF f.id = save[s].existingFile[1]
                           THEN changed(f) ELSE f : f \in files}
              /\ answer(s, 200)
         ELSE /\ UNCHANGED files
              /\ answer(s, 500)
  /\ UNCHANGED <<http, client>>
  /\ UNCHANGED backend

\* await codeFile.save() of a new CodeFile: validation, then the insert,
\* which the unique index may reject; res.status(201), or the catch block
saveNew(s) ==
  /\ save[s].st = "save"
  /\ save[s].existingFile = None
  /\ LET codeFile == [id |-> s, userId |-> save[s].userId,
                      filename |-> setFilename(save[s].filename),
                      code |-> save[s].code, language |-> save[s].language]
     IN  IF enumLanguage(codeFile) /\ uniqueIndex(codeFile)
         THEN /\ files' = files \cup {codeFile}
              /\ answer(s, 201)
         ELSE /\ UNCHANGED files
              /\ answer(s, 500)
  /\ UNCHANGED <<http, client>>
  /\ UNCHANGED backend

SaveNext ==
  \E s \in Saves :
    \/ receiveSave(s)
    \/ findOne(s)
    \/ saveExisting(s)
    \/ saveNew(s)

SaveSpec == ConcInit /\ [][SaveNext]_vars

\* ------------------------------------------- AuthContext.tsx (interceptor)
\* configs of requests the frontend creates in one run
MaxRequests == 4

\* a user who is logged in: login or loadUserData has set the state and
\* the localStorage
LoggedIn ==
  [NoClient EXCEPT !.token = Some("t0"), !.refreshTokenValue = Some("r0"),
                   !.storedToken = Some("t0")]

\* the config of a request axios has just sent.  parent is the request whose
\* response interceptor awaits this one, 0 for a request of the application.
Config(url, parent) ==
  [url |-> url, _retry |-> FALSE, sent |-> 1, st |-> "flight",
   status |-> None, parent |-> parent]

\* what the server answers: any route may answer 401 (routes/auth.js lines
\* 262-295 for POST /auth/refresh); 429 stands for every other failure
Answers401 == {200, 401, 429}

\* logout()
logout(cl) ==
  [cl EXCEPT !.token = None, !.refreshTokenValue = None,
             !.storedToken = None, !.loggedOut = TRUE]

\* the requests whose promises are rejected when request i is rejected: i,
\* and, when i is a refresh, the request whose interceptor awaits it, which
\* gets false from refreshToken, calls logout and rejects in turn
RECURSIVE Rejected(_, _)
Rejected(requests, i) ==
  IF requests[i].parent = 0
  THEN {i}
  ELSE {i} \cup Rejected(requests, requests[i].parent)

\* return Promise.reject(error), and what it sets off in the awaiting
\* interceptors
reject(cl, i, status) ==
  LET gone == Rejected(cl.requests, i)
      left == [cl EXCEPT
                 !.requests = [j \in DOMAIN cl.requests |->
                                 IF j \in gone
                                 THEN [cl.requests[j] EXCEPT !.st = "rejected"]
                                 ELSE cl.requests[j]],
                 !.requests[i].status = Some(status)]
  IN  IF gone = {i} THEN left ELSE logout(left)

\* an interceptor that leaves requests to /auth/refresh alone
interceptorSkipsRefresh(cl, i, status) ==
  IF status = 401 /\ ~cl.requests[i]._retry /\ cl.requests[i].url # "/auth/refresh"
  THEN LET marked == [cl EXCEPT !.requests[i]._retry = TRUE,
                                !.requests[i].status = Some(status)]
       IN  IF cl.refreshTokenValue = None
           THEN logout(reject(marked, i, status))
           ELSE [marked EXCEPT
                   !.requests[i].st = "intercept",
                   !.requests = Append(@, Config("/auth/refresh", i))]
  ELSE reject(cl, i, status)

\* the rejected handler of axios.interceptors.response, up to the await of
\* the request refreshTokenWithValue posts, or to its end
responseInterceptor(cl, i, status) ==
  IF status = 401 /\ ~cl.requests[i]._retry
  THEN LET marked == [cl EXCEPT !.requests[i]._retry = TRUE,
                                !.requests[i].status = Some(status)]
       IN  IF cl.refreshTokenValue = None
           THEN logout(reject(marked, i, status))
           ELSE [marked EXCEPT
                   !.requests[i].st = "intercept",
                   !.requests = Append(@, Config("/auth/refresh", i))]
  ELSE reject(cl, i, status)

\* the frontend starts with or without a session
AuthInit ==
  /\ Loaded
  /\ env = NoEnv /\ win = NoWin
  /\ client \in {NoClient, LoggedIn}

\* a component calls axios.get or axios.post
request ==
  /\ Len(client.requests) < MaxRequests
  /\ client' = [client EXCEPT !.requests = Append(@, Config("/files", 0))]
  /\ UNCHANGED <<http, files, save>>
  /\ UNCHANGED backend

\* the server answers request i with 200: (response) => response.  For the
\* request of refreshTokenWithValue its caller goes on: the token is set
\* and stored, refreshToken returns true and the interceptor that awaited it
\* sends its request again.
fulfilled(i) ==
  /\ i \in DOMAIN client.requests
  /\ client.requests[i].st = "flight"
  /\ LET parent == client.requests[i].parent
         done == [client EXCEPT !.requests[i].st = "resolved",
                                !.requests[i].status = Some(200)]
     IN  client' = IF parent = 0
                   THEN done
                   ELSE [done EXCEPT !.token = Some("t1"),
                                     !.storedToken = Some("t1"),
                                     !.requests[parent].st = "flight",
                                     !.requests[parent].sent = @ + 1]
  /\ UNCHANGED <<http, files, save>>
  /\ UNCHANGED backend

\* the server answers request i with an error status
failed(i) ==
  /\ i \in DOMAIN client.requests
  /\ client.requests[i].st = "flight"
  /\ \E status \in Answers401 \ {200} :
       /\ (status = 401 /\ ~client.requests[i]._retry
             /\ client.refreshTokenValue # None) =>
            Len(client.requests) < MaxRequests
       /\ client' = responseInterceptor(client, i, status)
  /\ UNCHANGED <<http, files, save>>
  /\ UNCHANGED backend

AuthNext ==
  \/ request
  \/ \E i \in 1..MaxRequests : fulfilled(i)
  \/ \E i \in 1..MaxRequests : failed(i)

AuthSpec == AuthInit /\ [][AuthNext]_vars

\* ------------------------------------------------------------- properties
\* The definitions below observe the state; they are not part of the model.
Completed(c) == pc[c] = "done"
Threw(c) == pending[c] # None /\ pending[c][1].kind = "throw"
thrown(c) == pending[c][1].error[1]
UNSUPPORTED == "Unsupported language: "
ValidatorMessages ==
  {"require() is not allowed for security reasons", "Import '"}
RejectedByValidator(c) ==
  Threw(c) /\ thrown(c).message[1] \in ValidatorMessages
NothingStarted(c) ==
  written[c] = None /\ cproc[c].st = "none" /\ rproc[c].st = "none"

\* C1: on every exit path of executeCode the removal of the session
\* directory has been attempted when the call completes, and when the
\* removal succeeded the directory does not exist at that moment.
C1_CleanupOnEveryExit ==
  \A c \in Calls :
    Completed(c) =>
      /\ cleanup[c] \in {"removed", "failed"}
      /\ cleanup[c] = "removed" => sessionDir(c) \notin dirs

\* C1 witness: the pipeline raised an unexpected error (the source file
\* could not be written into the existing session directory), the removal
\* succeeded and the error has reached the caller.
C1_Witness ==
  \E c \in Calls :
    /\ Completed(c)
    /\ outcome[c] \in {Some(Thrown(FsError(e, "open"))) : e \in FsErrors}
    /\ cleanup[c] = "removed"
    /\ sessionDir(c) \notin dirs

\* C2: executeCode throws only for an unsupported language or a rejection
\* by the validator; every other failure is returned inside a result.
C2_ThrowsOnlyRejections ==
  \A c \in Calls :
    (Completed(c) /\ outcome[c][1].kind = "throw") =>
      outcome[c][1].error[1].message[1] \in ValidatorMessages \cup {UNSUPPORTED}

ClaimedLanguages == {"javascript", "python", "java", "cpp", "c", "php"}

SpawnFailureHeads ==
  {"spawn ", "Java compiler not available: ", "C++ compiler not available: ",
   "C compiler not available: "}
OutcomePhase(completion) ==
  IF completion.kind = "throw"
  THEN IF completion.error[1].code = None THEN "Rejected" ELSE "Crashed"
  ELSE LET r == completion.result[1]
       IN  CASE r.exitCode = Some(0) -> "Succeeded"
             [] r.exitCode # Some(0) /\ r.error # << >>
                  /\ r.error[1] = "Compilation failed: " -> "CompileFailed"
             [] r.exitCode # Some(0) /\ r.error # << >>
                  /\ r.error[1] \in SpawnFailureHeads -> "Crashed"
             [] OTHER -> "RuntimeFailed"
Phase(c) ==
  CASE pc[c] \in {"idle", "returned"} -> "None"
    [] pc[c] = "ensureDir" -> "Created"
    [] pc[c] = "switch" -> "Validating"
    [] pc[c] \in {"writeFile", "spawn"} -> "Validated"
    [] pc[c] = "await" -> "Running"
    [] pc[c] = "finally" -> OutcomePhase(pending[c][1])
    [] pc[c] = "done" -> "Cleaned"

Outcomes == {"Succeeded", "CompileFailed", "RuntimeFailed", "Crashed"}

\* the transitions of the lifecycle as the claim C5 gives them
ClaimedLifecycle ==
  {<<"None", "Created">>, <<"Created", "Validating">>,
   <<"Validating", "Rejected">>, <<"Validating", "Validated">>,
   <<"Validated", "Running">>, <<"Cleaned", "None">>}
    \cup ({"Running"} \X Outcomes) \cup (Outcomes \X {"Cleaned"})

\* the transitions the code makes
Lifecycle ==
  ClaimedLifecycle
    \cup {<<"Rejected", "Cleaned">>, <<"Created", "Crashed">>,
          <<"Validated", "Crashed">>}

Settled(c) == promise[c].state = "resolved"
settledWith(c) == promise[c].value[1]
\* a stage that could not be spawned and whose 'error' event was delivered
SpawnFailed(p) == p.errno # None /\ p.st \in {"errored", "closed"}
\* a stage that was spawned and has closed
Ran(p) == p.errno = None /\ p.st = "closed"

\* C6: in a compile-then-run pipeline the run stage is spawned if and only
\* if the compile stage closed with exit code 0; when the compiler closes
\* with another code the result has empty output, the error
\* 'Compilation failed: ' followed by the compiler's stderr, and the
\* compiler's exit code as exitCode.
C6_CompileGatesRun ==
  \A c \in Calls :
    req[c].language \in Compiled =>
      /\ rproc[c].st # "none" <=> (Ran(cproc[c]) /\ cproc[c].code = Some(0))
      /\ (Ran(cproc[c]) /\ cproc[c].code # Some(0)) =>
           /\ Settled(c)
           /\ settledWith(c).output = << >>
           /\ settledWith(c).error = <<"Compilation failed: ">> \o cproc[c].err
           /\ settledWith(c).exitCode = cproc[c].code
           /\ Completed(c) => outcome[c] = Some(Returned(settledWith(c)))

\* C6 witness: a compiler that wrote to stderr and exited with 1; the
\* caller has the 'Compilation failed' result and no run stage exists.
C6_Witness ==
  \E c \in Calls :
    /\ req[c].language \in Compiled
    /\ Ran(cproc[c]) /\ cproc[c].code = Some(1) /\ cproc[c].err # << >>
    /\ rproc[c].st = "none"
    /\ Completed(c)
    /\ outcome[c][1].result[1].error = <<"Compilation failed: ">> \o cproc[c].err

\* C7 as stated: for every stage of every pipeline, a spawn failure gives
\* the result {output: '', error: the error message, exitCode: 1}.
C7_SpawnFailureIsBareMessage ==
  \A c \in Calls :
    \A p \in {cproc[c], rproc[c]} :
      (SpawnFailed(p) /\ pc[c] # "returned") =>
        /\ Settled(c)
        /\ settledWith(c) = Result(<< >>, spawnMessage(p), Some(1))

\* C7 amended: a spawn failure of a stage gives a result with empty output
\* and exitCode 1 whose error text is the error message for a run stage or
\* an interpreter, and the error message after the prefix
\* '<Java|C++|C> compiler not available: ' for a compile stage; the result
\* is returned to the caller, never thrown.
C7_SpawnFailureIsAResult ==
  \A c \in Calls :
    /\ (SpawnFailed(cproc[c]) /\ pc[c] # "returned") =>
         /\ Settled(c)
         /\ settledWith(c) =
              Result(<< >>,
                     <<compilerLabel(req[c].language)>> \o spawnMessage(cproc[c]),
                     Some(1))
         /\ Completed(c) => outcome[c] = Some(Returned(settledWith(c)))
    /\ (SpawnFailed(rproc[c]) /\ pc[c] # "returned") =>
         /\ Settled(c)
         /\ settledWith(c) = Result(<< >>, spawnMessage(rproc[c]), Some(1))
         /\ Completed(c) => outcome[c] = Some(Returned(settledWith(c)))

\* C7 witness: the run stage of a compiled language could not be spawned
\* after a successful compilation, and the caller has the result.
C7_Witness ==
  \E c \in Calls :
    /\ req[c].language \in Compiled
    /\ SpawnFailed(rproc[c])
    /\ Completed(c)
    /\ outcome[c][1].kind = "return"
    /\ outcome[c][1].result[1].exitCode = Some(1)

\* C8: a stage whose timeout expired while it was running is terminated,
\* and the result of the call never has exitCode 0.
C8_TimeoutTerminates ==
  \A c \in Calls :
    \A p \in {cproc[c], rproc[c]} :
      p.timer = "fired" =>
        /\ p.st = "closed"
        /\ Settled(c) => settledWith(c).exitCode # Some(0)

\* C9: every call to executeCode eventually completes.
C9_EveryCallCompletes ==
  \A c \in Calls : (pc[c] = "ensureDir") ~> Completed(c)

\* t is s without its leading and trailing whitespace
IsTrimmed(t, s) ==
  /\ t # << >> => (t[1] \notin Whitespace /\ t[Len(t)] \notin Whitespace)
  /\ \E i \in 0..(Len(s) - Len(t)) :
       /\ slice(s, i + 1, i + Len(t)) = t
       /\ \A k \in 1..Len(s) :
            (k <= i \/ k > i + Len(t)) => s[k] \in Whitespace

\* what a process wrote to one of its streams, in the order of its writes
RECURSIVE writtenTo(_, _)
writtenTo(log, stream) ==
  IF log = << >>
  THEN << >>
  ELSE (IF Head(log)[1] = stream THEN Head(log)[2] ELSE << >>)
         \o writtenTo(Tail(log), stream)

\* C10: when the final stage closes normally with exit code k, the result
\* is {output: everything the process wrote to stdout, in order, trimmed,
\* error: everything it wrote to stderr, in order, trimmed, exitCode: k}.
C10_ResultOfNormalClose ==
  \A c \in Calls :
    (Ran(rproc[c]) /\ rproc[c].code # None) =>
      /\ Settled(c)
      /\ IsTrimmed(settledWith(c).output, writtenTo(rproc[c].wrote, "stdout"))
      /\ IsTrimmed(settledWith(c).error, writtenTo(rproc[c].wrote, "stderr"))
      /\ settledWith(c).exitCode = rproc[c].code
      /\ Completed(c) => outcome[c] = Some(Returned(settledWith(c)))

\* C10 witness: a program that printed OK and a newline after a stderr
\* write and exited with 0; the caller has output OK and exitCode 0.
C10_Witness ==
  \E c \in Calls :
    /\ Ran(rproc[c]) /\ rproc[c].code = Some(0)
    /\ rproc[c].wrote = << <<"stderr", <<" ", "e">> >>,
                           <<"stdout", <<"O", "K", "\n">> >> >>
    /\ Completed(c)
    /\ outcome[c] = Some(Returned(Result(<<"O", "K">>, <<"e">>, Some(0))))

\* C11: a result with exitCode 0 is returned only when the last stage of
\* the pipeline was spawned and closed with exit code 0; a spawn failure, a
\* compile failure and a timeout never yield exitCode 0.
C11_ExitZeroOnlyOnSuccess ==
  \A c \in Calls :
    (Settled(c) /\ settledWith(c).exitCode = Some(0)) =>
      /\ Ran(rproc[c]) /\ rproc[c].code = Some(0)
      /\ req[c].language \in Compiled =>
           (Ran(cproc[c]) /\ cproc[c].code = Some(0))
      /\ cproc[c].timer # "fired" /\ rproc[c].timer # "fired"

\* C12: a result whose exitCode is null is produced only when a process
\* could not be started; a process that was started and has ended, by
\* itself or by being killed, yields an integer exitCode.
C12_NullOnlyWhenNotStarted ==
  \A c \in Calls :
    Settled(c) =>
      /\ settledWith(c).exitCode = None =>
           (SpawnFailed(cproc[c]) \/ SpawnFailed(rproc[c]))
      /\ (Ran(cproc[c]) \/ Ran(rproc[c])) => settledWith(c).exitCode # None

\* C13: when the removal of the session directory fails, the caller still
\* receives exactly the completion of the pipeline: the result the promise
\* was settled with, or the error the try block threw; the cleanup error is
\* never thrown.
C13_CleanupFailureNotPropagated ==
  \A c \in Calls :
    (Completed(c) /\ cleanup[c] = "failed") =>
      /\ outcome[c] = pending[c]
      /\ Settled(c) => outcome[c] = Some(Returned(settledWith(c)))
      /\ ~Settled(c) =>
           /\ outcome[c][1].kind = "throw"
           /\ outcome[c][1].error[1].message
                \notin {FsError(e, "rm").message : e \in FsErrors}

\* C13 witness: the removal failed after a program had run and exited with
\* 0; the directory is still there and the caller has the program's result.
C13_Witness ==
  \E c \in Calls :
    /\ Completed(c)
    /\ cleanup[c] = "failed"
    /\ sessionDir(c) \in dirs
    /\ Ran(rproc[c]) /\ rproc[c].code = Some(0) /\ rproc[c].out # << >>
    /\ outcome[c] = Some(Returned(Result(trim(rproc[c].out), trim(rproc[c].err),
                                         Some(0))))

\* a call that has entered executeCode and whose objects are still alive
Active(c) == pc[c] \notin {"idle", "returned"}
\* the positions between the creation of the directory and the finally block
InPipeline(c) == pc[c] \in {"switch", "writeFile", "spawn", "await"}

\* C14: at any moment, with calls overlapping in any way, every call has a
\* session directory of its own that no other call uses, it writes its
\* source file into that directory only, and the directory of a call that is
\* between its creation and its own cleanup exists, whatever the other calls
\* have removed.
C14_OwnDirectory ==
  \A c \in Calls :
    Active(c) =>
      /\ \A d \in Calls \ {c} : Active(d) => sessionDir(c) # sessionDir(d)
      /\ written[c] # None => written[c][1].dir = sessionDir(c)
      /\ InPipeline(c) => sessionDir(c) \in dirs

\* C14 witness: two overlapping calls with the same code and language; one
\* has completed and removed its directory while the other still waits for
\* its process, its directory in place.
C14_Witness ==
  \E c, d \in Calls :
    /\ c # d
    /\ req[c] = req[d] /\ req[c].language = "javascript"
    /\ Completed(c) /\ cleanup[c] = "removed" /\ sessionDir(c) \notin dirs
    /\ rproc[c].st = "closed"
    /\ pc[d] = "await" /\ rproc[d].st = "running" /\ sessionDir(d) \in dirs

\* What the code, the language and the input of a call and the behaviour of
\* its own child processes determine: the result of the first terminal
\* event of the call's own pipeline.
ownResult(c) ==
  LET l == req[c].language
      cp == cproc[c]
      rp == rproc[c]
  IN  CASE l \in Compiled /\ cp.errno # None ->
             Result(<< >>, <<compilerLabel(l)>> \o spawnMessage(cp), Some(1))
        [] l \in Compiled /\ cp.errno = None /\ cp.code # Some(0) ->
             Result(<< >>,
                    <<"Compilation failed: ">> \o writtenTo(cp.wrote, "stderr"),
                    cp.code)
        [] (l \in Compiled => (cp.errno = None /\ cp.code = Some(0)))
             /\ rp.errno # None ->
             Result(<< >>, spawnMessage(rp), Some(1))
        [] OTHER ->
             Result(trim(writtenTo(rp.wrote, "stdout")),
                    trim(writtenTo(rp.wrote, "stderr")), rp.code)

ownCompletion(c) ==
  LET l == req[c].language
  IN  IF l \notin SwitchCases
      THEN Thrown(Error(<<UNSUPPORTED, l>>))
      ELSE IF validate(l, req[c].code) # None
           THEN Thrown(Error(validate(l, req[c].code)[1]))
           ELSE Returned(ownResult(c))

\* failures of the file-system calls a call makes on its own directory
OwnFsFailures ==
  {Thrown(FsError(e, syscall)) : e \in FsErrors, syscall \in {"mkdir", "open"}}

\* C15: whatever the other calls do, before or at the same time, what a
\* call delivers is fixed by its own code, language and input together with
\* the behaviour of its own child processes (and of the file-system calls
\* on its own directory, which fail before any process exists).
C15_ResultIsOwn ==
  \A c \in Calls :
    Completed(c) =>
      \/ outcome[c] = Some(ownCompletion(c))
      \/ outcome[c][1] \in OwnFsFailures /\ cproc[c].st = "none"
           /\ rproc[c].st = "none"

\* C15 witness: two overlapping calls with the same code, language and
\* input whose programs behaved differently; each caller has the result of
\* its own program.
C15_Witness ==
  \E c, d \in Calls :
    /\ c # d
    /\ req[c] = req[d] /\ req[c].language = "javascript"
    /\ Completed(c) /\ Completed(d)
    /\ rproc[c].wrote = << <<"stdout", <<"O", "K", "\n">> >> >>
    /\ rproc[d].wrote = << <<"stderr", <<" ", "e">> >> >>
    /\ outcome[c] = Some(Returned(Result(<<"O", "K">>, << >>, Some(0))))
    /\ outcome[d] = Some(Returned(Result(<< >>, <<"e">>, Some(1))))

\* a call that has left the switch of executeCode on a created directory
PastSwitch(c) ==
  \/ pc[c] \in {"writeFile", "spawn", "await"}
  \/ /\ pc[c] \in {"finally", "done"}
     /\ ~(Threw(c) /\ thrown(c) \in {FsError(e, "mkdir") : e \in FsErrors})

\* C16: javascript code is rejected, with the require() error, if and only
\* if it contains the text 'require(' and nowhere the marker
\* '// @allow-require'; code that is not rejected goes on to the writing of
\* its source file and to its interpreter.
C16_RequireNeedsMarker ==
  \A c \in Calls :
    (req[c].language = "javascript" /\ PastSwitch(c)) =>
      LET code == req[c].code
          denied == includes(code, REQUIRE_CALL) /\ ~includes(code, ALLOW_REQUIRE)
      IN  /\ denied <=> RejectedByValidator(c)
          /\ denied =>
               /\ thrown(c) =
                    Error(<<"require() is not allowed for security reasons">>)
               /\ NothingStarted(c)
          /\ ~denied =>
               \/ pc[c] = "writeFile"
               \/ written[c] # None
               \/ Threw(c) /\ thrown(c) \in {FsError(e, "open") : e \in FsErrors}

\* C16 witness: a program that calls require( and carries the marker after
\* the call has been run by its interpreter, and the caller has the result.
C16_Witness ==
  \E c \in Calls :
    /\ req[c].language = "javascript"
    /\ req[c].code = REQUIRE_CALL \o <<"\n">> \o ALLOW_REQUIRE
    /\ Ran(rproc[c])
    /\ Completed(c)
    /\ outcome[c][1].kind = "return"

\* ----- python import statements, as the language reads them
\* the pieces of s between the occurrences of the character ch
RECURSIVE pieces(_, _)
pieces(s, ch) ==
  IF \A i \in 1..Len(s) : s[i] # ch
  THEN <<s>>
  ELSE LET k == CHOOSE i \in 1..Len(s) :
                  s[i] = ch /\ \A j \in 1..(i - 1) : s[j] # ch
       IN  <<SubSeq(s, 1, k - 1)>> \o pieces(SubSeq(s, k + 1, Len(s)), ch)

\* the words of s, in order
RECURSIVE words(_)
words(s) ==
  IF s = << >>
  THEN << >>
  ELSE IF Head(s) \notin WordChars
       THEN words(Tail(s))
       ELSE LET n == runLength(s, 1, WordChars)
            IN  <<SubSeq(s, 1, n)>> \o words(SubSeq(s, n + 1, Len(s)))

isName(s) == s # << >> /\ \A i \in 1..Len(s) : s[i] \in WordChars

\* line is the statement "import a, b, ..." with m among the names, or the
\* statement "from m import ..." (lines without dots, aliases or semicolons)
importsModule(line, m) ==
  LET l == trim(line)
  IN  \/ /\ startsWith(l, IMPORT_)
         /\ LET names == pieces(slice(l, Len(IMPORT_) + 1, Len(l)), ",")
            IN  /\ \A i \in 1..Len(names) : isName(trim(names[i]))
                /\ \E i \in 1..Len(names) : trim(names[i]) = m
      \/ /\ startsWith(l, FROM_)
         /\ LET w == words(l)
            IN  Len(w) >= 4 /\ w[2] = m /\ w[3] = <<"i", "m", "p", "o", "r", "t">>
                  /\ \A i \in 1..Len(l) : l[i] \in WordChars \cup {" ", ","}

\* line contains the text 'import m' or the text 'from m'
namesInText(line, m) ==
  \E kw \in {<<"i", "m", "p", "o", "r", "t", " ">>, <<"f", "r", "o", "m", " ">>} :
    \E i \in 1..Len(line) : slice(line, i, i + Len(kw) + Len(m) - 1) = kw \o m

Denylist == {dangerousImports[k] : k \in 1..Len(dangerousImports)}
importError(m) ==
  Error(<<"Import '">> \o m \o <<"' is not allowed for security reasons">>)
linesOf(c) == pieces(req[c].code, "\n")

\* C17 as stated: python code one of whose lines is an import or a
\* from-import of a module of the denylist is rejected with an error that
\* names a module of the denylist.
C17_DenylistedImportRejected ==
  \A c \in Calls :
    (req[c].language = "python" /\ PastSwitch(c)
       /\ \E i \in 1..Len(linesOf(c)) :
            \E m \in Denylist : importsModule(linesOf(c)[i], m)) =>
      /\ Threw(c)
      /\ thrown(c) \in {importError(m) : m \in Denylist}

\* C17 amended: python code one of whose lines contains the text
\* 'import m' or 'from m' for a module m of the denylist is rejected,
\* whatever else it contains, with the error 'Import 'm' is not allowed for
\* security reasons' for the first module of the denylist that the first
\* such line names in this way.
C17_DenylistedTextRejected ==
  \A c \in Calls :
    LET ls == linesOf(c)
        hit(i, k) == namesInText(ls[i], dangerousImports[k])
        hitLines == {i \in 1..Len(ls) :
                       \E k \in 1..Len(dangerousImports) : hit(i, k)}
    IN  (req[c].language = "python" /\ PastSwitch(c) /\ hitLines # {}) =>
          LET i0 == CHOOSE i \in hitLines : \A j \in hitLines : i <= j
              k0 == CHOOSE k \in 1..Len(dangerousImports) :
                      hit(i0, k) /\ \A j \in 1..(k - 1) : ~hit(i0, j)
          IN  /\ Threw(c)
              /\ thrown(c) = importError(dangerousImports[k0])
              /\ NothingStarted(c)

\* C17 witness: 'from sys' on the second line; the caller has the error
\* that names sys.
C17_Witness ==
  \E c \in Calls :
    /\ req[c].language = "python"
    /\ req[c].code = <<"\n">> \o FROM_ \o <<"s", "y", "s">>
    /\ Completed(c)
    /\ outcome[c] = Some(Thrown(importError(<<"s", "y", "s">>)))

\* C18 as stated: python code is rejected only if one of its lines is an
\* import or a from-import of a module of the denylist.
C18_OnlyDenylistedImportsRejected ==
  \A c \in Calls :
    (req[c].language = "python" /\ PastSwitch(c) /\ RejectedByValidator(c)) =>
      \E i \in 1..Len(linesOf(c)) :
        \E m \in Denylist : importsModule(linesOf(c)[i], m)

\* C18 amended: python code is rejected only if one of its lines contains
\* the text 'import m' or 'from m' for a module m of the denylist, also as
\* the beginning of a longer module name or outside an import statement;
\* the error names such an m; code without such a text is never rejected.
C18_OnlyDenylistedTextRejected ==
  \A c \in Calls :
    (req[c].language = "python" /\ PastSwitch(c) /\ RejectedByValidator(c)) =>
      \E i \in 1..Len(linesOf(c)) :
        \E m \in Denylist :
          /\ namesInText(linesOf(c)[i], m)
          /\ thrown(c) = importError(m)

\* C18 witness: 'import osx' imports no module of the denylist and is
\* rejected with the error that names os.
C18_Witness ==
  \E c \in Calls :
    /\ req[c].language = "python"
    /\ req[c].code = IMPORT_ \o <<"o", "s", "x">>
    /\ \A m \in Denylist : ~importsModule(req[c].code, m)
    /\ Completed(c)
    /\ outcome[c] = Some(Thrown(importError(<<"o", "s">>)))

\* C19: a non-empty input is written to the standard input of the run
\* stage exactly once, as one write of the whole input, and the stream is
\* ended in the same step in which the stage is spawned, so before any of
\* its events is handled; nothing more is ever written to it, and nothing is
\* written to the standard input of a compile stage.
C19_InputWrittenOnceThenClosed ==
  \A c \in Calls :
    (Active(c) /\ req[c].input # << >>) =>
      /\ cproc[c].stdin = [writes |-> << >>, ended |-> FALSE]
      /\ rproc[c].st # "none" =>
           rproc[c].stdin = [writes |-> <<req[c].input>>, ended |-> TRUE]

\* C19 witness: after a successful compilation the run stage of a call
\* with input has just been spawned; no event of it was handled yet, the
\* input is written and its standard input ended.
C19_Witness ==
  \E c \in Calls :
    /\ req[c].language \in Compiled
    /\ req[c].input = <<"h", "i">>
    /\ Ran(cproc[c]) /\ cproc[c].code = Some(0)
    /\ cproc[c].stdin.writes = << >>
    /\ rproc[c].st = "running" /\ rproc[c].chunks = 0
    /\ rproc[c].stdin = [writes |-> << <<"h", "i">> >>, ended |-> TRUE]

\* C20: whenever a stage cannot be spawned, the error text of the result
\* carries a label written by the engine that names the failed stage,
\* followed by the message of the spawn error, for compile stages, run
\* stages and interpreters alike.
C20_SpawnFailureNamesStage ==
  \A c \in Calls :
    \A p \in {cproc[c], rproc[c]} :
      (Active(c) /\ SpawnFailed(p)) =>
        /\ Settled(c)
        /\ LET error == settledWith(c).error
               n == Len(spawnMessage(p))
           IN  /\ Len(error) > n
               /\ slice(error, Len(error) - n + 1, Len(error)) = spawnMessage(p)

\* the first position from p on whose character is not in S
firstNotIn(code, p, S) ==
  CHOOSE k \in p..(Len(code) + 1) :
    /\ k = Len(code) + 1 \/ code[k] \notin S
    /\ \A j \in p..(k - 1) : code[j] \in S

\* the text of code from position i reads: public, white space, class,
\* white space and a word; the word, if so
declaredAt(code, i) ==
  LET p1 == i + Len(PUBLIC)
      p2 == IF p1 <= Len(code) THEN firstNotIn(code, p1, RegexSpace) ELSE p1
      p3 == p2 + Len(CLASS)
      p4 == IF p3 <= Len(code) THEN firstNotIn(code, p3, RegexSpace) ELSE p3
      p5 == IF p4 <= Len(code) THEN firstNotIn(code, p4, WordChars) ELSE p4
  IN  IF /\ slice(code, i, p1 - 1) = PUBLIC
         /\ p2 > p1
         /\ slice(code, p2, p3 - 1) = CLASS
         /\ p4 > p3
         /\ p5 > p4
      THEN Some(slice(code, p4, p5 - 1))
      ELSE None

\* n is the word after the first 'public class' of code, or Main
isDeclaredName(code, n) ==
  LET starts == {i \in 1..Len(code) : declaredAt(code, i) # None}
  IN  IF starts = {}
      THEN n = <<"M", "a", "i", "n">>
      ELSE \E i \in starts :
             /\ \A j \in starts : i <= j
             /\ n = declaredAt(code, i)[1]

\* C21: for java the source is written to <Name>.java in the session
\* directory, the compiler is given that file, and the runtime is invoked
\* with the arguments -cp, the session directory and <Name>, where <Name>
\* is the word after the first 'public class' of the code, or Main when
\* the code has none.
C21_JavaNameAgrees ==
  \A c \in Calls :
    (req[c].language = "java" /\ Active(c)) =>
      /\ written[c] # None =>
           /\ isDeclaredName(req[c].code,
                             slice(written[c][1].name, 1,
                                   Len(written[c][1].name) - 1))
           /\ written[c][1].name[Len(written[c][1].name)] = ".java"
           /\ written[c][1].dir = sessionDir(c)
           /\ written[c][1].content = req[c].code
      /\ cproc[c].st # "none" =>
           cproc[c].args =
             <<[dir |-> written[c][1].dir, name |-> written[c][1].name]>>
      /\ rproc[c].st # "none" =>
           /\ Len(rproc[c].args) = 3
           /\ rproc[c].args[1] = "-cp"
           /\ rproc[c].args[2] = sessionDir(c)
           /\ rproc[c].args[3] \o <<".java">> = written[c][1].name
           /\ isDeclaredName(req[c].code, rproc[c].args[3])

\* C21 witness: a code with two declarations, the first with a tab between
\* public and class; the file is C.java and the runtime has run class C.
C21_Witness ==
  \E c \in Calls :
    /\ req[c].language = "java"
    /\ req[c].code = PUBLIC \o <<"\t">> \o CLASS \o <<" ", "C", " ">>
                       \o PUBLIC \o <<" ">> \o CLASS \o <<" ">> \o <<"A">>
    /\ written[c] # None /\ written[c][1].name = <<"C", ".java">>
    /\ Ran(rproc[c])
    /\ rproc[c].args = <<"-cp", sessionDir(c), <<"C">> >>

\* C22: for php the text written to script.php always begins with '<?php':
\* code that begins with '<?php' is written unchanged, any other code is
\* written after '<?php' and a newline, and normalising the written text
\* again gives the written text.
C22_PhpOpenTag ==
  \A c \in Calls :
    (req[c].language = "php" /\ written[c] # None) =>
      LET code == req[c].code
          text == written[c][1].content
      IN  /\ written[c][1].name = <<"script.php">>
          /\ slice(text, 1, 5) = <<"<", "?", "p", "h", "p">>
          /\ slice(code, 1, 5) = <<"<", "?", "p", "h", "p">> => text = code
          /\ slice(code, 1, 5) # <<"<", "?", "p", "h", "p">> =>
               text = <<"<", "?", "p", "h", "p", "\n">> \o code
          /\ phpCode(text) = text
          /\ phpCode(phpCode(code)) = phpCode(code)

\* C22 witness: a code with a blank before its open tag is written after a
\* new open tag and a newline, and the interpreter has run the file.
C22_Witness ==
  \E c \in Calls :
    /\ req[c].language = "php"
    /\ req[c].code = <<" ">> \o PHP_OPEN \o <<"\n">>
    /\ written[c] # None
    /\ written[c][1].content = PHP_OPEN \o <<"\n", " ">> \o PHP_OPEN \o <<"\n">>
    /\ Ran(rproc[c])
    /\ rproc[c].args = <<[dir |-> sessionDir(c), name |-> <<"script.php">>]>>

\* the variables dedicated to a tool, in the order in which they are tried
Dedicated(name) ==
  CASE name = "javac" -> <<"JAVAC_PATH">>
    [] name = "java" -> <<"JAVA_PATH">>
    [] name = "php" -> <<"PHP_PATH">>
    [] name = "gcc" -> <<"GCC_PATH">>
    [] name = "g++" -> <<"GPP_PATH", "GXX_PATH">>
    [] OTHER -> << >>
\* a variable is in use when it is set and not empty
InUse(e, v) == e[v] # None /\ e[v] # Some("")
ToolNames == {"javac", "java", "php", "gcc", "g++", "node", "python", "program.exe"}

\* path is the candidate the rules of C23 give for the tool name under e
isCandidate(e, name, path) ==
  LET vs == Dedicated(name)
      used == {i \in 1..Len(vs) : InUse(e, vs[i])}
  IN  IF used # {}
      THEN \E i \in used : (\A j \in used : i <= j) /\ path = <<e[vs[i]][1]>>
      ELSE IF name \in {"javac", "java"} /\ InUse(e, "JAVA_HOME")
           THEN path = <<e["JAVA_HOME"][1], "bin", name>>
           ELSE path = <<name>>

\* C23: in every environment resolveBinary returns a candidate for every
\* name: for javac and java the value of JAVAC_PATH / JAVA_PATH, otherwise
\* JAVA_HOME/bin/<tool>, otherwise the tool name; for php the value of
\* PHP_PATH, for gcc of GCC_PATH, for g++ of GPP_PATH and then of GXX_PATH,
\* otherwise the tool name; any other name unchanged (a variable counts when
\* it is set to a non-empty value); and the stages of the pipelines are
\* spawned with these candidates.
C23_ResolveBinary ==
  /\ \A name \in ToolNames :
       /\ isCandidate(env, name, resolveBinary(env, name))
       /\ resolveBinary(env, name) # << >>
  /\ \A c \in Calls :
       \A stage \in {"compile", "run"} :
         LET p == IF stage = "compile" THEN cproc[c] ELSE rproc[c]
         IN  p.st # "none" =>
               isCandidate(env, command(req[c].language, stage), p.file)

\* C23 witness: with JAVAC_PATH empty, JAVA_HOME set and GXX_PATH set
\* without GPP_PATH, a java compile stage was spawned as JAVA_HOME/bin/javac
\* and g++ resolves to the value of GXX_PATH.
C23_Witness ==
  \E c \in Calls :
    /\ env["JAVAC_PATH"] = Some("") /\ env["JAVA_HOME"] = Some("/opt/JAVA_HOME")
    /\ env["GPP_PATH"] = None /\ env["GXX_PATH"] = Some("/opt/GXX_PATH")
    /\ req[c].language = "java"
    /\ cproc[c].st = "closed"
    /\ cproc[c].file = <<"/opt/JAVA_HOME", "bin", "javac">>
    /\ resolveBinary(env, "g++") = <<"/opt/GXX_PATH">>

\* the probes that were spawned or failed to spawn, of every call
Probed == {<<h, i>> \in Health \X (1..Len(targets)) : probes[h].procs[i].st # "none"}
\* what the probe has captured when it closes: stdout, or stderr when
\* nothing at all was written to stdout
captured(p) == IF p.out = << >> THEN p.err ELSE p.out

\* C24: a probe is reported available exactly when it was spawned and exited
\* with code 0, and then the version is the trimmed captured output; a probe
\* that failed to spawn is reported unavailable with the message of the spawn
\* error; a probe that exited with another code is reported unavailable with
\* the trimmed captured stderr; java and javac are probed with '-version',
\* any other tool with '--version'.
C24_CheckBinaryReport ==
  \A x \in Probed :
    LET p == probes[x[1]].procs[x[2]]
        s == p.status[1]
    IN  /\ p.args = (IF p.name \in {"java", "javac"}
                     THEN <<"-version">> ELSE <<"--version">>)
        /\ p.st \in {"errored", "closed"} => p.status # None
        /\ p.status # None =>
             /\ s.name = p.name
             /\ s.available = (p.errno = None /\ p.code = Some(0))
             /\ s.available => IsTrimmed(s.version, captured(p)) /\ s.error = << >>
             /\ p.errno # None =>
                  s.error = <<"spawn ">> \o p.file \o <<" ", p.errno[1]>>
             /\ (p.errno = None /\ p.code # Some(0)) => IsTrimmed(s.error, p.err)

\* C24 witness: of one call, the probe of java exited with 0 after printing
\* its version to stderr, the probe of javac could not be spawned, and the
\* probe of php exited with 1 after writing to stderr.
C24_Witness ==
  \E h \in Health :
    LET p == probes[h].procs
    IN  /\ p[1].st = "closed" /\ p[1].code = Some(0) /\ p[1].out = << >>
        /\ p[1].status # None /\ p[1].status[1].available
        /\ p[1].status[1].version = <<"O", "K">>
        /\ p[2].st = "closed" /\ p[2].errno = Some("ENOENT")
        /\ p[2].status # None /\ ~p[2].status[1].available
        /\ p[3].st = "closed" /\ p[3].code = Some(1) /\ p[3].err # << >>
        /\ p[3].status # None /\ ~p[3].status[1].available
        /\ p[3].status[1].error = <<"e">>

\* C25: a call of getBinaryStatuses ends in no other way than by returning,
\* and what it returns has exactly one entry for every tool of the list, in
\* the order of the list; the entry of a tool is the status of that tool's
\* own probe, so what happened to the probe of another tool does not show
\* in it.
C25_OneEntryPerTool ==
  \A h \in Health :
    /\ probes[h].st \in {"idle", "probing", "resolved", "returned"}
    /\ probes[h].st = "resolved" =>
         /\ probes[h].value # None
         /\ DOMAIN probes[h].value[1] = 1..Len(targets)
         /\ \A i \in 1..Len(targets) :
              LET p == probes[h].procs[i]
                  s == probes[h].value[1][i]
              IN  /\ s.name = targets[i]
                  /\ s.path = resolveBinary(env, targets[i])
                  /\ s.available = (p.errno = None /\ p.code = Some(0))
                  /\ p.errno # None => s.error = spawnMessage(p)
                  /\ p.errno = None =>
                       /\ s.version \in {trim(p.out), trim(p.err)}
                       /\ s.error \in {<< >>, trim(p.err)}

\* C25 witness: a call returned three statuses of which the first reports a
\* tool that could not be spawned, the second an available tool and the third
\* a tool that exited with 1.
C25_Witness ==
  \E h \in Health :
    /\ probes[h].st = "resolved"
    /\ probes[h].value # None
    /\ LET v == probes[h].value[1]
       IN  /\ Len(v) = 3
           /\ v[1].name = "java" /\ ~v[1].available
           /\ v[1].error = <<"spawn ", "java", " ", "EACCES">>
           /\ v[2].name = "javac" /\ v[2].available /\ v[2].error = << >>
           /\ v[3].name = "php" /\ ~v[3].available /\ v[3].error = <<"e">>
           /\ probes[h].procs[3].code = Some(1)

\* some returned status reports the tool as not available
ReportedUnavailable(name) ==
  \E h \in Health :
    /\ probes[h].value # None
    /\ \E i \in 1..Len(targets) :
         probes[h].value[1][i].name = name /\ ~probes[h].value[1][i].available

\* a call that has written its source file can spawn its first stage
C26_SpawnNotGated ==
  \A c \in Calls : pc[c] = "spawn" => ENABLED startPipeline(c)

\* a step that begins a call of getBinaryStatuses spawns a probe for every
\* target and has no status yet
C26_FreshProbes ==
  \A h \in Health :
    (probes[h].st = "idle" /\ probes'[h].st # "idle") =>
      /\ probes'[h].st = "probing"
      /\ probes'[h].value = None
      /\ \A i \in 1..Len(targets) :
           /\ probes'[h].procs[i].st \in {"running", "failed"}
           /\ probes'[h].procs[i].status = None

\* C26: whatever the probes have reported and whether or not any has run,
\* a call of executeCode that has reached the spawn of its first stage can
\* perform it; and every call of getBinaryStatuses spawns a new probe for
\* each tool, whatever an earlier call returned.
C26_NoGateNoCache == []C26_SpawnNotGated /\ [][C26_FreshProbes]_vars

\* C26 witness: a call of getBinaryStatuses has returned a status that says
\* javac is not available; call 1, a java program, has written its source
\* file and its next step spawns javac, which can start.
C26_Witness ==
  /\ pc[1] = "spawn" /\ req[1].language = "java"
  /\ probes[1].st = "resolved"
  /\ ReportedUnavailable("javac")
  /\ ENABLED (startPipeline(1) /\ cproc'[1].st = "running")

\* C27: the executionTime of a result is the time that passed between the
\* entry of executeCode and the moment the last stage ended and the promise
\* was settled; it is not the reading of the clock at that moment, and it is
\* 0 when no time has passed.
C27_TimingIsDuration ==
  [][\A c \in Calls :
       (promise[c].state = "pending" /\ promise'[c].state = "resolved") =>
         promise'[c].executionTime = Some(now - started[c][1])]_vars

\* the code of the call is one the content check of its language refuses
Refused(c) ==
  /\ req[c].language \in {"javascript", "python"}
  /\ validate(req[c].language, req[c].code) # None

\* C28: for javascript and python the content check comes first: no step
\* creates the source file of a call or spawns a process for it unless the
\* code of the call has passed the check, and a call whose code the check
\* refuses goes from the switch to the finally block with the validator's
\* error, with no file and no process.
C28_CheckBeforeWriteAndSpawn ==
  [][\A c \in Calls :
       /\ (\/ written[c] = None /\ written'[c] # None
           \/ cproc[c].st = "none" /\ cproc'[c].st # "none"
           \/ rproc[c].st = "none" /\ rproc'[c].st # "none") => ~Refused(c)
       /\ (pc[c] = "switch" /\ Refused(c)) =>
            (pc'[c] = "switch" \/
               /\ pc'[c] = "finally"
               /\ pending'[c] # None /\ pending'[c][1].kind = "throw"
               /\ written'[c] = None
               /\ cproc'[c].st = "none" /\ rproc'[c].st = "none")]_vars

\* C28 witness: a python program that imports os was refused: the call is
\* in its finally block, its directory exists and is empty, and no process
\* was spawned.
C28_Witness ==
  \E c \in Calls :
    /\ pc[c] = "finally"
    /\ req[c].language = "python"
    /\ req[c].code = <<"i", "m", "p", "o", "r", "t", " ", "o", "s">>
    /\ RejectedByValidator(c)
    /\ sessionDir(c) \in dirs
    /\ written[c] = None
    /\ cproc[c].st = "none" /\ rproc[c].st = "none"

\* C29: every process spawned for a call (interpreter, compiler, JVM,
\* compiled program) has the call's session directory as its working
\* directory; the source file is created in that directory; the compiler is
\* given the source file in that directory and, for cpp and c, an output
\* file in that directory (javac puts the class file beside the source);
\* and the run stage reads the program from that directory.
C29_EverythingInSessionDir ==
  \A c \in Calls :
    LET dir == sessionDir(c)
        l == req[c].language
    IN  /\ written[c] # None => written[c][1].dir = dir
        /\ cproc[c].st # "none" =>
             /\ cproc[c].cwd = Some(dir)
             /\ cproc[c].args[1].dir = dir
             /\ l \in {"cpp", "c"} =>
                  (cproc[c].args[3].dir = dir /\ cproc[c].args[2] = "-o")
        /\ rproc[c].st # "none" =>
             /\ rproc[c].cwd = Some(dir)
             /\ l \in Interpreted => rproc[c].args[1].dir = dir
             /\ l = "java" => rproc[c].args[2] = dir
             /\ l \in {"cpp", "c"} => rproc[c].fileDir = Some(dir)

\* C29 witness: the second call, a cpp program, is running its compiled
\* program from its own directory, in which g++ had been told to read the
\* source and to put the executable.
C29_Witness ==
  \E c \in Calls :
    /\ c > 1
    /\ req[c].language = "cpp"
    /\ sessionDir(c) \in dirs
    /\ written[c] # None /\ written[c][1].dir = sessionDir(c)
    /\ cproc[c].st = "closed" /\ cproc[c].code = Some(0)
    /\ cproc[c].cwd = Some(sessionDir(c))
    /\ cproc[c].args[3] = executableFile(sessionDir(c))
    /\ rproc[c].st = "running"
    /\ rproc[c].cwd = Some(sessionDir(c))
    /\ rproc[c].fileDir = Some(sessionDir(c))

\* the run stage of the call was spawned and closed by the kill of its timeout
KilledByTimeout(c) ==
  /\ rproc[c].errno = None
  /\ rproc[c].st = "closed"
  /\ rproc[c].timer = "fired"
  /\ rproc[c].code = None

\* C30: when the run stage was killed by its timeout, the promise is settled
\* with everything the process had written to stdout and to stderr before
\* the kill, in order and trimmed, and that result is what the caller gets.
C30_PartialOutputKept ==
  \A c \in Calls :
    KilledByTimeout(c) =>
      /\ Settled(c)
      /\ IsTrimmed(settledWith(c).output, writtenTo(rproc[c].wrote, "stdout"))
      /\ IsTrimmed(settledWith(c).error, writtenTo(rproc[c].wrote, "stderr"))
      /\ Completed(c) => outcome[c] = Some(Returned(settledWith(c)))

\* C30 witness: a program wrote OK to stdout and e to stderr and was then
\* killed by the timeout; the caller has both texts and exitCode null.
C30_Witness ==
  \E c \in Calls :
    /\ KilledByTimeout(c)
    /\ rproc[c].wrote = << <<"stdout", <<"O", "K", "\n">> >>,
                           <<"stderr", <<" ", "e">> >> >>
    /\ Completed(c)
    /\ outcome[c] = Some(Returned(Result(<<"O", "K">>, <<"e">>, None)))

\* C31: a call waits for a stage no longer than that stage's timeout, which
\* is counted from the stage's spawn: while the promise of the call is
\* pending, the timer of no stage of the call has expired, so a request with
\* one stage is blocked for at most one timeout and a compile-then-run
\* request for at most two.
C31_BlockedWithinTimeouts ==
  \A c \in Calls :
    promise[c].state = "pending" =>
      (cproc[c].timer # "fired" /\ rproc[c].timer # "fired")

\* the last component of a path: what stands between the last separator (or
\* the drive prefix) and the end, trailing separators aside
Component(p) ==
  LET root == IF Len(p) >= 2 /\ p[2] = ":" THEN 2 ELSE 0
      spans == {ab \in ((root + 1)..Len(p)) \X ((root + 1)..Len(p)) :
                  /\ ab[1] <= ab[2]
                  /\ \A i \in ab[1]..ab[2] : p[i] \notin Separators
                  /\ \A i \in (ab[2] + 1)..Len(p) : p[i] \in Separators
                  /\ ab[1] = root + 1 \/ p[ab[1] - 1] \in Separators}
  IN  IF spans = {} THEN << >>
      ELSE LET ab == CHOOSE ab \in spans : TRUE IN slice(p, ab[1], ab[2])

\* the path has an extension: its last component has a dot that is not its
\* first character, and is not '..'
HasExtension(p) ==
  LET base == Component(p)
  IN  base # <<".", ".">> /\ \E k \in 2..Len(base) : base[k] = "."

\* the override of the environment the tool is resolved from, if any
Override(e, name) ==
  LET set(v) == e[v] # None /\ e[v][1] # << >>
  IN  CASE name = "gcc" /\ set("GCC_PATH") -> e.GCC_PATH
        [] name = "g++" /\ set("GPP_PATH") -> e.GPP_PATH
        [] name = "g++" /\ ~set("GPP_PATH") /\ set("GXX_PATH") -> e.GXX_PATH
        [] OTHER -> None

\* C32: the resolved path differs from the override only on Windows, only
\* when the override has no extension and the override with '.exe' appended
\* exists and the file system did not fail, and then it is the override with
\* '.exe' appended; otherwise it is the override itself.  Without an
\* override the bare name of the tool is returned, whatever exists on disk.
C32_EnsureWinExe ==
  win.bin # None =>
    LET o == Override(env, win.name)
        bin == win.bin[1]
    IN  IF o = None
        THEN bin = toolText(win.name)
        ELSE LET suffixed == /\ win.platform = "win32"
                             /\ ~HasExtension(o[1])
                             /\ (o[1] \o EXE) \in win.disk
                             /\ ~win.fsError
             IN  /\ suffixed => bin = o[1] \o EXE
                 /\ ~suffixed => bin = o[1]

\* C32 witness: on Windows GCC_PATH is C:\d.v\g, a path without extension
\* below a directory with a dot in its name, C:\d.v\g.exe exists, and gcc
\* was resolved to C:\d.v\g.exe.
C32_Witness ==
  /\ win.platform = "win32"
  /\ win.name = "gcc"
  /\ env.GCC_PATH = Some(<<"C", ":", "\\", "d", ".", "v", "\\", "g">>)
  /\ win.bin = Some(<<"C", ":", "\\", "d", ".", "v", "\\", "g", ".", "e", "x", "e">>)

\* the body is one the claim C33 lets through: code is a string that is
\* not blank and has at most 50000 characters, and language is a string
\* whose lower-cased form is a supported language
Executable(x) ==
  /\ x.code.type = "string"
  /\ \E i \in 1..Len(x.code.text) : x.code.text[i] \notin Whitespace
  /\ Len(x.code.text) <= 50000
  /\ x.language.type = "string"
  /\ toLowerCase(x.language.text) \in ClaimedLanguages

\* C33: executeCode is entered only for a request whose code is a non-blank
\* string of at most 50000 characters and whose lower-cased language is
\* supported; every other request is answered with status 400 without
\* executeCode being entered.
C33_RouteGuardsExecute ==
  \A c \in Calls :
    /\ (http[c].st # "idle" /\ pc[c] # "idle") => Executable(http[c])
    /\ (http[c].st = "responded" /\ ~Executable(http[c])) =>
         (http[c].status = Some(400) /\ pc[c] = "idle")

\* C34: a call has one outcome.  Once its promise is settled, by the first
\* 'error' or 'close' that ends its pipeline, no later event changes the
\* value; what the try block ended with and what the caller received do not
\* change either, and the caller receives the value of the promise.  The
\* same holds for the status of a probe.
C34_OutcomeFixedByFirstEvent ==
  [][/\ \A c \in Calls :
          /\ promise[c].state = "resolved" => promise'[c] \in {promise[c], NoPromise}
          /\ pending[c] # None => pending'[c] \in {pending[c], None}
          /\ outcome[c] # None => outcome'[c] \in {outcome[c], None}
          /\ (outcome'[c] # None /\ promise'[c].state = "resolved") =>
               outcome'[c] = Some(Returned(promise'[c].value[1]))
     /\ \A h \in Health : \A i \in 1..Len(targets) :
          probes[h].procs[i].status # None =>
            \/ probes'[h].procs[i].status = probes[h].procs[i].status
            \/ probes'[h].procs[i] = NoProbe]_vars

\* C34 witness: javac could not be spawned; 'error' settled the promise, the
\* call has completed, and the 'close' of javac with the negative errno has
\* been delivered after that: the caller has the result of the 'error'.
C34_Witness ==
  /\ req[1].language = "java"
  /\ cproc[1].errno = Some("ENOENT")
  /\ cproc[1].st = "closed"
  /\ cproc[1].code = Some(0 - 2)
  /\ rproc[1].st = "none"
  /\ Completed(1)
  /\ outcome[1] = Some(Returned(promise[1].value[1]))
  /\ promise[1].value[1].exitCode = Some(1)
  /\ \E h \in Health : \E i \in 1..Len(targets) :
       /\ probes[h].procs[i].st = "closed"
       /\ probes[h].procs[i].errno # None
       /\ probes[h].procs[i].status # None
       /\ ~probes[h].procs[i].status[1].available

\* ------------------------------------------------------------------- C35
\* a stage of call c is started by this step
Starts(p, q) == p.st = "none" /\ q.st # "none"

\* C35: while the session directory of a call is removed, no process of the
\* call is running, and no step starts one; a compile stage that reported
\* 'error' and whose result was delivered stays the only stage of the call
\* when its 'close' arrives.
C35_NothingRunsAfterRemoval ==
  /\ [](\A c \in Calls :
          cleanup[c] = "removed" =>
            /\ cproc[c].st # "running"
            /\ rproc[c].st # "running")
  /\ [][\A c \in Calls :
          /\ cleanup[c] = "removed" =>
               /\ ~Starts(cproc[c], cproc'[c])
               /\ ~Starts(rproc[c], rproc'[c])
          /\ (cproc[c].st = "errored" /\ outcome[c] # None) =>
               ~Starts(rproc[c], rproc'[c])]_vars

\* the directory is removed, the result of the compile 'error' is delivered,
\* the 'close' of that compile stage has arrived and no run stage exists
C35_Witness ==
  \E c \in Calls :
    /\ cleanup[c] = "removed"
    /\ outcome[c] # None
    /\ cproc[c].st = "closed"
    /\ cproc[c].errno # None
    /\ rproc[c].st = "none"

Answers(s, status) ==
  save[s].st = "save" /\ save'[s].st = "answered" /\ save'[s].status = Some(status)

\* the _ids of the stored files
Ids(F) == {f.id : f \in F}

\* C37: in every state at most one stored file has a given user and
\* filename, and every request that was answered has a success or an error
\* status.  A save that found the file changes that file and neither adds
\* nor removes one; a save that found no file either adds its one file and
\* answers 201, or changes nothing and answers 500.
C37_OneFilePerUserAndName ==
  /\ [](/\ \A f, g \in files :
             (f.userId = g.userId /\ f.filename = g.filename) => f = g
        /\ \A s \in Saves :
             save[s].st = "answered" =>
               save[s].status \in {Some(200), Some(201), Some(400), Some(500)})
  /\ [][\A s \in Saves :
          (save[s].st = "save" /\ save'[s].st = "answered") =>
            IF save[s].existingFile # None
            THEN /\ Ids(files') = Ids(files)
                 /\ Answers(s, 200) \/ (Answers(s, 500) /\ files' = files)
                 /\ Answers(s, 200) =>
                      \A f \in files' :
                        IF f.id = save[s].existingFile[1]
                        THEN f.code = save[s].code /\ f.userId = save[s].userId
                        ELSE f \in files
            ELSE \/ /\ Answers(s, 201)
                    /\ \E f \in files' \ files :
                         /\ files' = files \cup {f}
                         /\ f.userId = save[s].userId
                         /\ f.filename = trim(save[s].filename)
                         /\ f.code = save[s].code
                 \/ Answers(s, 500) /\ files' = files]_vars

\* two first saves of one filename by one user have both found no file; one
\* was answered 201 and the other 500, one file is stored, and a third
\* request has updated it
C37_Witness ==
  \E s \in Saves, t \in Saves, u \in Saves :
    /\ save[s].userId = save[t].userId
    /\ trim(save[s].filename) = trim(save[t].filename)
    /\ save[s].language = "python" /\ save[t].language = "python"
    /\ save[s].existingFile = None /\ save[t].existingFile = None
    /\ save[s].status = Some(201) /\ save[t].status = Some(500)
    /\ save[u].existingFile = Some(s) /\ save[u].status = Some(200)
    /\ \E f \in files : files = {f} /\ f.id = s /\ f.code = save[u].code

\* ------------------------------------------------------------------- C38
\* C38: no request is sent more than twice, and it is sent a second time
\* only after the refresh its interceptor awaited was answered with success;
\* once a refresh was answered 401 it has failed: the user is logged out and
\* both the refresh and the request that awaited it are rejected, the
\* latter having been sent once.
C38_RetriedAtMostOnce ==
  \A i \in DOMAIN client.requests :
    LET r == client.requests[i]
    IN  /\ r.sent <= 2
        /\ r.sent = 2 =>
             \E j \in DOMAIN client.requests :
               /\ client.requests[j].parent = i
               /\ client.requests[j].status = Some(200)
        /\ (r.parent # 0 /\ r.status = Some(401)) =>
             /\ client.loggedOut
             /\ r.st = "rejected"
             /\ client.requests[r.parent].st = "rejected"
             /\ client.requests[r.parent].sent = 1

====
